---- MODULE Spec2Model ----
(***************************************************************************)
(* Model of sn2ssg.py: the note-stream splitter, the backoff delay, the    *)
(* fetch/validate retry loops and the processing/reconciliation of a run.  *)
(*                                                                         *)
(* Text is modelled as it is in the program: a string is a sequence of     *)
(* one-character strings, a line is a string without "\n", and a text file *)
(* is the sequence of lines that content.split("\n") yields.               *)
(***************************************************************************)
EXTENDS Integers, Sequences, FiniteSets, TLC

VARIABLES split, bk, gather, notify, ssg, env, pc, file, fetch, val, out, proc, outdir

vars == <<split, bk, gather, notify, ssg, env, pc, file, fetch, val, out, proc, outdir>>

runVars == <<env, pc, file, fetch, val, out, proc, outdir>>

(***************************************************************************)
(* Python string primitives used by the program.                           *)
(***************************************************************************)

\* s.endswith(suf)
EndsWith(s, suf) ==
    /\ Len(s) >= Len(suf)
    /\ SubSeq(s, Len(s) - Len(suf) + 1, Len(s)) = suf

\* s.startswith(pre)
StartsWith(s, pre) ==
    /\ Len(s) >= Len(pre)
    /\ SubSeq(s, 1, Len(pre)) = pre

\* sub in s
Contains(s, sub) ==
    \E k \in 1..(Len(s) - Len(sub) + 1) : SubSeq(s, k, k + Len(sub) - 1) = sub

\* "".join(parts) for a list of strings; also list concatenation of a list of lists
RECURSIVE Concat(_)
Concat(parts) ==
    IF parts = <<>> THEN <<>> ELSE Head(parts) \o Concat(Tail(parts))

(***************************************************************************)
(* Characters.  A string of the program is a sequence of characters, and a *)
(* character is a string of one character.  A character that is not in     *)
(* WrittenRuns (it cannot be written in a string of a module, or lies      *)
(* outside the blocks listed there) is the string of its code point        *)
(* instead, "U+" and four to six hexadecimal digits: "U+0060", "U+1F600".  *)
(* Every code point has one name, so the operators below answer for every  *)
(* character of Python.  The tables are those of the interpreter the       *)
(* program runs on (Python 3.11, Unicode 14).                              *)
(***************************************************************************)

Range(f) == {f[k] : k \in DOMAIN f}

\* the member of a set of at most one member, or `otherwise` when it has none
TheOne(set, otherwise) == IF set = {} THEN otherwise ELSE CHOOSE x \in set : TRUE

HexDigits ==
    <<"0", "1", "2", "3", "4", "5", "6", "7", "8", "9", "A", "B", "C", "D", "E", "F">>

\* int(digits, 16) for the digits after "U+"
RECURSIVE HexToInt(_, _)
HexToInt(digits, acc) ==
    IF digits = "" THEN acc
    ELSE HexToInt(Tail(digits),
                  16 * acc + (CHOOSE k \in 1..16 : HexDigits[k] = Head(digits)) - 1)

\* "%X" % n
RECURSIVE IntToHex(_)
IntToHex(n) ==
    IF n < 16 THEN HexDigits[n + 1] ELSE IntToHex(n \div 16) \o HexDigits[(n % 16) + 1]

\* A table of numbers is written in lines of text: the numbers of a tuple with
\* a space between them, the tuples with a comma and a space between them.
\* ReadTuples reads the rest s of a line, with the number and the tuple read so
\* far and the tuples read before them.
RECURSIVE ReadTuples(_, _, _, _)
ReadTuples(s, num, tup, acc) ==
    IF s = "" THEN acc \cup {Append(tup, num)}
    ELSE IF Head(s) = ","
    THEN ReadTuples(Tail(Tail(s)), 0, <<>>, acc \cup {Append(tup, num)})
    ELSE IF Head(s) = " " THEN ReadTuples(Tail(s), 0, Append(tup, num), acc)
    ELSE ReadTuples(Tail(s), 10 * num + HexToInt(Head(s), 0), tup, acc)

\* the set of the tuples of a table
Table(text) == UNION {ReadTuples(text[k], 0, <<>>, {}) : k \in DOMAIN text}

\* the characters written as themselves, in runs of consecutive code points:
\* the code point of the first character of a run, and the characters
WrittenRuns ==
    <<<<9, "\t\n\f\r">>,
      <<28, " !\"#$%&'()*+,-./0123456789:;<=>?@ABCDEFGHIJKLMNOPQRSTUVW">>,
      <<88, "XYZ[\\]^_">>,
      <<97, "abcdefghijklmnopqrstuvwxyz{|}~">>,
      <<133, "">>,
      <<160, " ">>,
      <<170, "ª">>,
      <<178, "²³">>,
      <<181, "µ">>,
      <<185, "¹º">>,
      <<188, "¼½¾">>,
      <<192, "ÀÁÂÃÄÅÆÇÈÉÊËÌÍÎÏÐÑÒÓÔÕÖ">>,
      <<216, "ØÙÚÛÜÝÞßàáâãäåæçèéêëìíîïðñòóôõö">>,
      <<248, "øùúûüýþÿ">>,
      <<384, "ƀƁƂƃƄƅƆƇƈƉƊƋƌƍƎƏƐƑƒƓƔƕƖƗƘƙƚƛƜƝƞƟƠơƢƣƤƥƦƧƨƩƪƫƬƭƮƯưƱƲƳƴƵƶƷƸƹƺƻ">>,
      <<444, "ƼƽƾƿǀǁǂǃǄǅǆǇǈǉǊǋǌǍǎǏǐǑǒǓǔǕǖǗǘǙǚǛǜǝǞǟǠǡǢǣǤǥǦǧǨǩǪǫǬǭǮǯǰǱǲǳǴǵǶǷ">>,
      <<504, "ǸǹǺǻǼǽǾǿ">>,
      <<902, "Ά">>,
      <<904, "ΈΉΊ">>,
      <<908, "Ό">>,
      <<910, "ΎΏΐΑΒΓΔΕΖΗΘΙΚΛΜΝΞΟΠΡ">>,
      <<931, "ΣΤΥΦΧΨΩΪΫάέήίΰαβγδεζηθικλμνξοπρςστυφχψωϊϋόύώϏϐϑϒϓϔϕϖϗϘϙϚϛϜϝϞ">>,
      <<991, "ϟϠϡϢϣϤϥϦϧϨϩϪϫϬϭϮϯϰϱϲϳϴϵ">>,
      <<1015, "ϷϸϹϺϻϼϽϾϿ">>,
      <<1152, "Ҁҁ">>,
      <<1162, "ҊҋҌҍҎҏҐґҒғҔҕҖҗҘҙҚқҜҝҞҟҠҡҢңҤҥҦҧҨҩҪҫҬҭҮүҰұҲҳҴҵҶҷҸҹҺһҼҽҾҿӀӁӂӃӄӅ">>,
      <<1222, "ӆӇӈӉӊӋӌӍӎӏӐӑӒӓӔӕӖӗӘәӚӛӜӝӞӟӠӡӢӣӤӥӦӧӨөӪӫӬӭӮӯӰӱӲӳӴӵӶӷӸӹӺӻӼӽӾӿ">>,
      <<5760, " ">>>>

CodeOfWritten ==
    LET PairsOf(run) == {<<SubSeq(run[2], k, k), run[1] + k - 1>> : k \in 1..Len(run[2])}
        CodeIn(pairs) == [c \in {p[1] : p \in pairs} |-> (CHOOSE p \in pairs : p[1] = c)[2]]
    IN  CodeIn(UNION {PairsOf(run) : run \in Range(WrittenRuns)})

\* ord(c)
Ord(c) ==
    IF Len(c) = 1 THEN CodeOfWritten[c] ELSE HexToInt(SubSeq(c, 3, Len(c)), 0)

\* chr(n)
Chr(n) ==
    TheOne({SubSeq(run[2], n - run[1] + 1, n - run[1] + 1) :
                run \in {w \in Range(WrittenRuns) : w[1] <= n /\ n < w[1] + Len(w[2])}},
           "U+" \o (IF n < 16 THEN "000" ELSE IF n < 256 THEN "00"
                    ELSE IF n < 4096 THEN "0" ELSE "") \o IntToHex(n))

\* whether the code point n lies in one of the ranges <<first, last>>
InRanges(n, table) == \E r \in table : r[1] <= n /\ n <= r[2]

\* the code points str.strip() and the pattern \s take for whitespace
\* (str.isspace)
SpaceRanges ==
    Table(<<"9 13, 28 32, 133 133, 160 160, 5760 5760, 8192 8202, 8232 8233",
             "8239 8239, 8287 8287, 12288 12288">>)

\* the code points the pattern \w matches (str.isalnum, and the underscore)
WordRanges ==
    Table(<<"48 57, 65 90, 95 95, 97 122, 170 170, 178 179, 181 181, 185 186",
             "188 190, 192 214, 216 246, 248 705, 710 721, 736 740, 748 748, 750 750",
             "880 884, 886 887, 890 893, 895 895, 902 902, 904 906, 908 908, 910 929",
             "931 1013, 1015 1153, 1162 1327, 1329 1366, 1369 1369, 1376 1416",
             "1488 1514, 1519 1522, 1568 1610, 1632 1641, 1646 1647, 1649 1747",
             "1749 1749, 1765 1766, 1774 1788, 1791 1791, 1808 1808, 1810 1839",
             "1869 1957, 1969 1969, 1984 2026, 2036 2037, 2042 2042, 2048 2069",
             "2074 2074, 2084 2084, 2088 2088, 2112 2136, 2144 2154, 2160 2183",
             "2185 2190, 2208 2249, 2308 2361, 2365 2365, 2384 2384, 2392 2401",
             "2406 2415, 2417 2432, 2437 2444, 2447 2448, 2451 2472, 2474 2480",
             "2482 2482, 2486 2489, 2493 2493, 2510 2510, 2524 2525, 2527 2529",
             "2534 2545, 2548 2553, 2556 2556, 2565 2570, 2575 2576, 2579 2600",
             "2602 2608, 2610 2611, 2613 2614, 2616 2617, 2649 2652, 2654 2654",
             "2662 2671, 2674 2676, 2693 2701, 2703 2705, 2707 2728, 2730 2736",
             "2738 2739, 2741 2745, 2749 2749, 2768 2768, 2784 2785, 2790 2799",
             "2809 2809, 2821 2828, 2831 2832, 2835 2856, 2858 2864, 2866 2867",
             "2869 2873, 2877 2877, 2908 2909, 2911 2913, 2918 2927, 2929 2935",
             "2947 2947, 2949 2954, 2958 2960, 2962 2965, 2969 2970, 2972 2972",
             "2974 2975, 2979 2980, 2984 2986, 2990 3001, 3024 3024, 3046 3058",
             "3077 3084, 3086 3088, 3090 3112, 3114 3129, 3133 3133, 3160 3162",
             "3165 3165, 3168 3169, 3174 3183, 3192 3198, 3200 3200, 3205 3212",
             "3214 3216, 3218 3240, 3242 3251, 3253 3257, 3261 3261, 3293 3294",
             "3296 3297, 3302 3311, 3313 3314, 3332 3340, 3342 3344, 3346 3386",
             "3389 3389, 3406 3406, 3412 3414, 3416 3425, 3430 3448, 3450 3455",
             "3461 3478, 3482 3505, 3507 3515, 3517 3517, 3520 3526, 3558 3567",
             "3585 3632, 3634 3635, 3648 3654, 3664 3673, 3713 3714, 3716 3716",
             "3718 3722, 3724 3747, 3749 3749, 3751 3760, 3762 3763, 3773 3773",
             "3776 3780, 3782 3782, 3792 3801, 3804 3807, 3840 3840, 3872 3891",
             "3904 3911, 3913 3948, 3976 3980, 4096 4138, 4159 4169, 4176 4181",
             "4186 4189, 4193 4193, 4197 4198, 4206 4208, 4213 4225, 4238 4238",
             "4240 4249, 4256 4293, 4295 4295, 4301 4301, 4304 4346, 4348 4680",
             "4682 4685, 4688 4694, 4696 4696, 4698 4701, 4704 4744, 4746 4749",
             "4752 4784, 4786 4789, 4792 4798, 4800 4800, 4802 4805, 4808 4822",
             "4824 4880, 4882 4885, 4888 4954, 4969 4988, 4992 5007, 5024 5109",
             "5112 5117, 5121 5740, 5743 5759, 5761 5786, 5792 5866, 5870 5880",
             "5888 5905, 5919 5937, 5952 5969, 5984 5996, 5998 6000, 6016 6067",
             "6103 6103, 6108 6108, 6112 6121, 6128 6137, 6160 6169, 6176 6264",
             "6272 6276, 6279 6312, 6314 6314, 6320 6389, 6400 6430, 6470 6509",
             "6512 6516, 6528 6571, 6576 6601, 6608 6618, 6656 6678, 6688 6740",
             "6784 6793, 6800 6809, 6823 6823, 6917 6963, 6981 6988, 6992 7001",
             "7043 7072, 7086 7141, 7168 7203, 7232 7241, 7245 7293, 7296 7304",
             "7312 7354, 7357 7359, 7401 7404, 7406 7411, 7413 7414, 7418 7418",
             "7424 7615, 7680 7957, 7960 7965, 7968 8005, 8008 8013, 8016 8023",
             "8025 8025, 8027 8027, 8029 8029, 8031 8061, 8064 8116, 8118 8124",
             "8126 8126, 8130 8132, 8134 8140, 8144 8147, 8150 8155, 8160 8172",
             "8178 8180, 8182 8188, 8304 8305, 8308 8313, 8319 8329, 8336 8348",
             "8450 8450, 8455 8455, 8458 8467, 8469 8469, 8473 8477, 8484 8484",
             "8486 8486, 8488 8488, 8490 8493, 8495 8505, 8508 8511, 8517 8521",
             "8526 8526, 8528 8585, 9312 9371, 9450 9471, 10102 10131, 11264 11492",
             "11499 11502, 11506 11507, 11517 11517, 11520 11557, 11559 11559",
             "11565 11565, 11568 11623, 11631 11631, 11648 11670, 11680 11686",
             "11688 11694, 11696 11702, 11704 11710, 11712 11718, 11720 11726",
             "11728 11734, 11736 11742, 11823 11823, 12293 12295, 12321 12329",
             "12337 12341, 12344 12348, 12353 12438, 12445 12447, 12449 12538",
             "12540 12543, 12549 12591, 12593 12686, 12690 12693, 12704 12735",
             "12784 12799, 12832 12841, 12872 12879, 12881 12895, 12928 12937",
             "12977 12991, 13312 19903, 19968 42124, 42192 42237, 42240 42508",
             "42512 42539, 42560 42606, 42623 42653, 42656 42735, 42775 42783",
             "42786 42888, 42891 42954, 42960 42961, 42963 42963, 42965 42969",
             "42994 43009, 43011 43013, 43015 43018, 43020 43042, 43056 43061",
             "43072 43123, 43138 43187, 43216 43225, 43250 43255, 43259 43259",
             "43261 43262, 43264 43301, 43312 43334, 43360 43388, 43396 43442",
             "43471 43481, 43488 43492, 43494 43518, 43520 43560, 43584 43586",
             "43588 43595, 43600 43609, 43616 43638, 43642 43642, 43646 43695",
             "43697 43697, 43701 43702, 43705 43709, 43712 43712, 43714 43714",
             "43739 43741, 43744 43754, 43762 43764, 43777 43782, 43785 43790",
             "43793 43798, 43808 43814, 43816 43822, 43824 43866, 43868 43881",
             "43888 44002, 44016 44025, 44032 55203, 55216 55238, 55243 55291",
             "63744 64109, 64112 64217, 64256 64262, 64275 64279, 64285 64285",
             "64287 64296, 64298 64310, 64312 64316, 64318 64318, 64320 64321",
             "64323 64324, 64326 64433, 64467 64829, 64848 64911, 64914 64967",
             "65008 65019, 65136 65140, 65142 65276, 65296 65305, 65313 65338",
             "65345 65370, 65382 65470, 65474 65479, 65482 65487, 65490 65495",
             "65498 65500, 65536 65547, 65549 65574, 65576 65594, 65596 65597",
             "65599 65613, 65616 65629, 65664 65786, 65799 65843, 65856 65912",
             "65930 65931, 66176 66204, 66208 66256, 66273 66299, 66304 66339",
             "66349 66378, 66384 66421, 66432 66461, 66464 66499, 66504 66511",
             "66513 66517, 66560 66717, 66720 66729, 66736 66771, 66776 66811",
             "66816 66855, 66864 66915, 66928 66938, 66940 66954, 66956 66962",
             "66964 66965, 66967 66977, 66979 66993, 66995 67001, 67003 67004",
             "67072 67382, 67392 67413, 67424 67431, 67456 67461, 67463 67504",
             "67506 67514, 67584 67589, 67592 67592, 67594 67637, 67639 67640",
             "67644 67644, 67647 67669, 67672 67702, 67705 67742, 67751 67759",
             "67808 67826, 67828 67829, 67835 67867, 67872 67897, 67968 68023",
             "68028 68047, 68050 68096, 68112 68115, 68117 68119, 68121 68149",
             "68160 68168, 68192 68222, 68224 68255, 68288 68295, 68297 68324",
             "68331 68335, 68352 68405, 68416 68437, 68440 68466, 68472 68497",
             "68521 68527, 68608 68680, 68736 68786, 68800 68850, 68858 68899",
             "68912 68921, 69216 69246, 69248 69289, 69296 69297, 69376 69415",
             "69424 69445, 69457 69460, 69488 69505, 69552 69579, 69600 69622",
             "69635 69687, 69714 69743, 69745 69746, 69749 69749, 69763 69807",
             "69840 69864, 69872 69881, 69891 69926, 69942 69951, 69956 69956",
             "69959 69959, 69968 70002, 70006 70006, 70019 70066, 70081 70084",
             "70096 70106, 70108 70108, 70113 70132, 70144 70161, 70163 70187",
             "70272 70278, 70280 70280, 70282 70285, 70287 70301, 70303 70312",
             "70320 70366, 70384 70393, 70405 70412, 70415 70416, 70419 70440",
             "70442 70448, 70450 70451, 70453 70457, 70461 70461, 70480 70480",
             "70493 70497, 70656 70708, 70727 70730, 70736 70745, 70751 70753",
             "70784 70831, 70852 70853, 70855 70855, 70864 70873, 71040 71086",
             "71128 71131, 71168 71215, 71236 71236, 71248 71257, 71296 71338",
             "71352 71352, 71360 71369, 71424 71450, 71472 71483, 71488 71494",
             "71680 71723, 71840 71922, 71935 71942, 71945 71945, 71948 71955",
             "71957 71958, 71960 71983, 71999 71999, 72001 72001, 72016 72025",
             "72096 72103, 72106 72144, 72161 72161, 72163 72163, 72192 72192",
             "72203 72242, 72250 72250, 72272 72272, 72284 72329, 72349 72349",
             "72368 72440, 72704 72712, 72714 72750, 72768 72768, 72784 72812",
             "72818 72847, 72960 72966, 72968 72969, 72971 73008, 73030 73030",
             "73040 73049, 73056 73061, 73063 73064, 73066 73097, 73112 73112",
             "73120 73129, 73440 73458, 73648 73648, 73664 73684, 73728 74649",
             "74752 74862, 74880 75075, 77712 77808, 77824 78894, 82944 83526",
             "92160 92728, 92736 92766, 92768 92777, 92784 92862, 92864 92873",
             "92880 92909, 92928 92975, 92992 92995, 93008 93017, 93019 93025",
             "93027 93047, 93053 93071, 93760 93846, 93952 94026, 94032 94032",
             "94099 94111, 94176 94177, 94179 94179, 94208 100343, 100352 101589",
             "101632 101640, 110576 110579, 110581 110587, 110589 110590",
             "110592 110882, 110928 110930, 110948 110951, 110960 111355",
             "113664 113770, 113776 113788, 113792 113800, 113808 113817",
             "119520 119539, 119648 119672, 119808 119892, 119894 119964",
             "119966 119967, 119970 119970, 119973 119974, 119977 119980",
             "119982 119993, 119995 119995, 119997 120003, 120005 120069",
             "120071 120074, 120077 120084, 120086 120092, 120094 120121",
             "120123 120126, 120128 120132, 120134 120134, 120138 120144",
             "120146 120485, 120488 120512, 120514 120538, 120540 120570",
             "120572 120596, 120598 120628, 120630 120654, 120656 120686",
             "120688 120712, 120714 120744, 120746 120770, 120772 120779",
             "120782 120831, 122624 122654, 123136 123180, 123191 123197",
             "123200 123209, 123214 123214, 123536 123565, 123584 123627",
             "123632 123641, 124896 124902, 124904 124907, 124909 124910",
             "124912 124926, 124928 125124, 125127 125135, 125184 125251",
             "125259 125259, 125264 125273, 126065 126123, 126125 126127",
             "126129 126132, 126209 126253, 126255 126269, 126464 126467",
             "126469 126495, 126497 126498, 126500 126500, 126503 126503",
             "126505 126514, 126516 126519, 126521 126521, 126523 126523",
             "126530 126530, 126535 126535, 126537 126537, 126539 126539",
             "126541 126543, 126545 126546, 126548 126548, 126551 126551",
             "126553 126553, 126555 126555, 126557 126557, 126559 126559",
             "126561 126562, 126564 126564, 126567 126570, 126572 126578",
             "126580 126583, 126585 126588, 126590 126590, 126592 126601",
             "126603 126619, 126625 126627, 126629 126633, 126635 126651",
             "127232 127244, 130032 130041, 131072 173791, 173824 177976",
             "177984 178205, 178208 183969, 183984 191456, 194560 195101",
             "196608 201546">>)

\* the code points the pattern \d matches (the decimal digits of all scripts):
\* each range starts at a digit zero and holds the digits 0 to 9 in order,
\* once or several times
DecimalRanges ==
    Table(<<"48 57, 1632 1641, 1776 1785, 1984 1993, 2406 2415, 2534 2543",
             "2662 2671, 2790 2799, 2918 2927, 3046 3055, 3174 3183, 3302 3311",
             "3430 3439, 3558 3567, 3664 3673, 3792 3801, 3872 3881, 4160 4169",
             "4240 4249, 6112 6121, 6160 6169, 6470 6479, 6608 6617, 6784 6793",
             "6800 6809, 6992 7001, 7088 7097, 7232 7241, 7248 7257, 42528 42537",
             "43216 43225, 43264 43273, 43472 43481, 43504 43513, 43600 43609",
             "44016 44025, 65296 65305, 66720 66729, 68912 68921, 69734 69743",
             "69872 69881, 69942 69951, 70096 70105, 70384 70393, 70736 70745",
             "70864 70873, 71248 71257, 71360 71369, 71472 71481, 71904 71913",
             "72016 72025, 72784 72793, 73040 73049, 73120 73129, 92768 92777",
             "92864 92873, 93008 93017, 120782 120831, 123200 123209, 123632 123641",
             "125264 125273, 130032 130041">>)

\* the code points that have a small letter: <<first, last, step, small>>
\* stands for first, first + step, ... up to last; `small` is the small letter
\* of the first, and the small letter of each lies as far after it
LowerRuns ==
    Table(<<"65 90 1 97, 192 214 1 224, 216 222 1 248, 256 302 2 257, 304 304 1 105",
             "306 310 2 307, 313 327 2 314, 330 374 2 331, 376 376 1 255",
             "377 381 2 378, 385 385 1 595, 386 388 2 387, 390 390 1 596",
             "391 391 1 392, 393 394 1 598, 395 395 1 396, 398 398 1 477",
             "399 399 1 601, 400 400 1 603, 401 401 1 402, 403 403 1 608",
             "404 404 1 611, 406 406 1 617, 407 407 1 616, 408 408 1 409",
             "412 412 1 623, 413 413 1 626, 415 415 1 629, 416 420 2 417",
             "422 422 1 640, 423 423 1 424, 425 425 1 643, 428 428 1 429",
             "430 430 1 648, 431 431 1 432, 433 434 1 650, 435 437 2 436",
             "439 439 1 658, 440 440 1 441, 444 444 1 445, 452 452 1 454",
             "453 453 1 454, 455 455 1 457, 456 456 1 457, 458 458 1 460",
             "459 475 2 460, 478 494 2 479, 497 497 1 499, 498 500 2 499",
             "502 502 1 405, 503 503 1 447, 504 542 2 505, 544 544 1 414",
             "546 562 2 547, 570 570 1 11365, 571 571 1 572, 573 573 1 410",
             "574 574 1 11366, 577 577 1 578, 579 579 1 384, 580 580 1 649",
             "581 581 1 652, 582 590 2 583, 880 882 2 881, 886 886 1 887",
             "895 895 1 1011, 902 902 1 940, 904 906 1 941, 908 908 1 972",
             "910 911 1 973, 913 929 1 945, 931 939 1 963, 975 975 1 983",
             "984 1006 2 985, 1012 1012 1 952, 1015 1015 1 1016, 1017 1017 1 1010",
             "1018 1018 1 1019, 1021 1023 1 891, 1024 1039 1 1104, 1040 1071 1 1072",
             "1120 1152 2 1121, 1162 1214 2 1163, 1216 1216 1 1231, 1217 1229 2 1218",
             "1232 1326 2 1233, 1329 1366 1 1377, 4256 4293 1 11520",
             "4295 4295 1 11559, 4301 4301 1 11565, 5024 5103 1 43888",
             "5104 5109 1 5112, 7312 7354 1 4304, 7357 7359 1 4349, 7680 7828 2 7681",
             "7838 7838 1 223, 7840 7934 2 7841, 7944 7951 1 7936, 7960 7965 1 7952",
             "7976 7983 1 7968, 7992 7999 1 7984, 8008 8013 1 8000, 8025 8031 2 8017",
             "8040 8047 1 8032, 8072 8079 1 8064, 8088 8095 1 8080, 8104 8111 1 8096",
             "8120 8121 1 8112, 8122 8123 1 8048, 8124 8124 1 8115, 8136 8139 1 8050",
             "8140 8140 1 8131, 8152 8153 1 8144, 8154 8155 1 8054, 8168 8169 1 8160",
             "8170 8171 1 8058, 8172 8172 1 8165, 8184 8185 1 8056, 8186 8187 1 8060",
             "8188 8188 1 8179, 8486 8486 1 969, 8490 8490 1 107, 8491 8491 1 229",
             "8498 8498 1 8526, 8544 8559 1 8560, 8579 8579 1 8580, 9398 9423 1 9424",
             "11264 11311 1 11312, 11360 11360 1 11361, 11362 11362 1 619",
             "11363 11363 1 7549, 11364 11364 1 637, 11367 11371 2 11368",
             "11373 11373 1 593, 11374 11374 1 625, 11375 11375 1 592",
             "11376 11376 1 594, 11378 11378 1 11379, 11381 11381 1 11382",
             "11390 11391 1 575, 11392 11490 2 11393, 11499 11501 2 11500",
             "11506 11506 1 11507, 42560 42604 2 42561, 42624 42650 2 42625",
             "42786 42798 2 42787, 42802 42862 2 42803, 42873 42875 2 42874",
             "42877 42877 1 7545, 42878 42886 2 42879, 42891 42891 1 42892",
             "42893 42893 1 613, 42896 42898 2 42897, 42902 42920 2 42903",
             "42922 42922 1 614, 42923 42923 1 604, 42924 42924 1 609",
             "42925 42925 1 620, 42926 42926 1 618, 42928 42928 1 670",
             "42929 42929 1 647, 42930 42930 1 669, 42931 42931 1 43859",
             "42932 42946 2 42933, 42948 42948 1 42900, 42949 42949 1 642",
             "42950 42950 1 7566, 42951 42953 2 42952, 42960 42960 1 42961",
             "42966 42968 2 42967, 42997 42997 1 42998, 65313 65338 1 65345",
             "66560 66599 1 66600, 66736 66771 1 66776, 66928 66938 1 66967",
             "66940 66954 1 66979, 66956 66962 1 66995, 66964 66965 1 67003",
             "68736 68786 1 68800, 71840 71871 1 71872, 93760 93791 1 93792",
             "125184 125217 1 125218">>)

\* the code points that the rule of str.lower() for the capital sigma skips
\* (Case_Ignorable)
CaseIgnorableRanges ==
    Table(<<"39 39, 46 46, 58 58, 94 94, 96 96, 168 168, 173 173, 175 175, 180 180",
             "183 184, 688 879, 884 885, 890 890, 900 901, 903 903, 1155 1161",
             "1369 1369, 1375 1375, 1425 1469, 1471 1471, 1473 1474, 1476 1477",
             "1479 1479, 1524 1524, 1536 1541, 1552 1562, 1564 1564, 1600 1600",
             "1611 1631, 1648 1648, 1750 1757, 1759 1768, 1770 1773, 1807 1807",
             "1809 1809, 1840 1866, 1958 1968, 2027 2037, 2042 2042, 2045 2045",
             "2070 2093, 2137 2139, 2184 2184, 2192 2193, 2200 2207, 2249 2306",
             "2362 2362, 2364 2364, 2369 2376, 2381 2381, 2385 2391, 2402 2403",
             "2417 2417, 2433 2433, 2492 2492, 2497 2500, 2509 2509, 2530 2531",
             "2558 2558, 2561 2562, 2620 2620, 2625 2626, 2631 2632, 2635 2637",
             "2641 2641, 2672 2673, 2677 2677, 2689 2690, 2748 2748, 2753 2757",
             "2759 2760, 2765 2765, 2786 2787, 2810 2815, 2817 2817, 2876 2876",
             "2879 2879, 2881 2884, 2893 2893, 2901 2902, 2914 2915, 2946 2946",
             "3008 3008, 3021 3021, 3072 3072, 3076 3076, 3132 3132, 3134 3136",
             "3142 3144, 3146 3149, 3157 3158, 3170 3171, 3201 3201, 3260 3260",
             "3263 3263, 3270 3270, 3276 3277, 3298 3299, 3328 3329, 3387 3388",
             "3393 3396, 3405 3405, 3426 3427, 3457 3457, 3530 3530, 3538 3540",
             "3542 3542, 3633 3633, 3636 3642, 3654 3662, 3761 3761, 3764 3772",
             "3782 3782, 3784 3789, 3864 3865, 3893 3893, 3895 3895, 3897 3897",
             "3953 3966, 3968 3972, 3974 3975, 3981 3991, 3993 4028, 4038 4038",
             "4141 4144, 4146 4151, 4153 4154, 4157 4158, 4184 4185, 4190 4192",
             "4209 4212, 4226 4226, 4229 4230, 4237 4237, 4253 4253, 4348 4348",
             "4957 4959, 5906 5908, 5938 5939, 5970 5971, 6002 6003, 6068 6069",
             "6071 6077, 6086 6086, 6089 6099, 6103 6103, 6109 6109, 6155 6159",
             "6211 6211, 6277 6278, 6313 6313, 6432 6434, 6439 6440, 6450 6450",
             "6457 6459, 6679 6680, 6683 6683, 6742 6742, 6744 6750, 6752 6752",
             "6754 6754, 6757 6764, 6771 6780, 6783 6783, 6823 6823, 6832 6862",
             "6912 6915, 6964 6964, 6966 6970, 6972 6972, 6978 6978, 7019 7027",
             "7040 7041, 7074 7077, 7080 7081, 7083 7085, 7142 7142, 7144 7145",
             "7149 7149, 7151 7153, 7212 7219, 7222 7223, 7288 7293, 7376 7378",
             "7380 7392, 7394 7400, 7405 7405, 7412 7412, 7416 7417, 7468 7530",
             "7544 7544, 7579 7679, 8125 8125, 8127 8129, 8141 8143, 8157 8159",
             "8173 8175, 8189 8190, 8203 8207, 8216 8217, 8228 8228, 8231 8231",
             "8234 8238, 8288 8292, 8294 8303, 8305 8305, 8319 8319, 8336 8348",
             "8400 8432, 11388 11389, 11503 11505, 11631 11631, 11647 11647",
             "11744 11775, 11823 11823, 12293 12293, 12330 12333, 12337 12341",
             "12347 12347, 12441 12446, 12540 12542, 40981 40981, 42232 42237",
             "42508 42508, 42607 42610, 42612 42621, 42623 42623, 42652 42655",
             "42736 42737, 42752 42785, 42864 42864, 42888 42890, 42994 42996",
             "43000 43001, 43010 43010, 43014 43014, 43019 43019, 43045 43046",
             "43052 43052, 43204 43205, 43232 43249, 43263 43263, 43302 43309",
             "43335 43345, 43392 43394, 43443 43443, 43446 43449, 43452 43453",
             "43471 43471, 43493 43494, 43561 43566, 43569 43570, 43573 43574",
             "43587 43587, 43596 43596, 43632 43632, 43644 43644, 43696 43696",
             "43698 43700, 43703 43704, 43710 43711, 43713 43713, 43741 43741",
             "43756 43757, 43763 43764, 43766 43766, 43867 43871, 43881 43883",
             "44005 44005, 44008 44008, 44013 44013, 64286 64286, 64434 64450",
             "65024 65039, 65043 65043, 65056 65071, 65106 65106, 65109 65109",
             "65279 65279, 65287 65287, 65294 65294, 65306 65306, 65342 65342",
             "65344 65344, 65392 65392, 65438 65439, 65507 65507, 65529 65531",
             "66045 66045, 66272 66272, 66422 66426, 67456 67461, 67463 67504",
             "67506 67514, 68097 68099, 68101 68102, 68108 68111, 68152 68154",
             "68159 68159, 68325 68326, 68900 68903, 69291 69292, 69446 69456",
             "69506 69509, 69633 69633, 69688 69702, 69744 69744, 69747 69748",
             "69759 69761, 69811 69814, 69817 69818, 69821 69821, 69826 69826",
             "69837 69837, 69888 69890, 69927 69931, 69933 69940, 70003 70003",
             "70016 70017, 70070 70078, 70089 70092, 70095 70095, 70191 70193",
             "70196 70196, 70198 70199, 70206 70206, 70367 70367, 70371 70378",
             "70400 70401, 70459 70460, 70464 70464, 70502 70508, 70512 70516",
             "70712 70719, 70722 70724, 70726 70726, 70750 70750, 70835 70840",
             "70842 70842, 70847 70848, 70850 70851, 71090 71093, 71100 71101",
             "71103 71104, 71132 71133, 71219 71226, 71229 71229, 71231 71232",
             "71339 71339, 71341 71341, 71344 71349, 71351 71351, 71453 71455",
             "71458 71461, 71463 71467, 71727 71735, 71737 71738, 71995 71996",
             "71998 71998, 72003 72003, 72148 72151, 72154 72155, 72160 72160",
             "72193 72202, 72243 72248, 72251 72254, 72263 72263, 72273 72278",
             "72281 72283, 72330 72342, 72344 72345, 72752 72758, 72760 72765",
             "72767 72767, 72850 72871, 72874 72880, 72882 72883, 72885 72886",
             "73009 73014, 73018 73018, 73020 73021, 73023 73029, 73031 73031",
             "73104 73105, 73109 73109, 73111 73111, 73459 73460, 78896 78904",
             "92912 92916, 92976 92982, 92992 92995, 94031 94031, 94095 94111",
             "94176 94177, 94179 94180, 110576 110579, 110581 110587, 110589 110590",
             "113821 113822, 113824 113827, 118528 118573, 118576 118598",
             "119143 119145, 119155 119170, 119173 119179, 119210 119213",
             "119362 119364, 121344 121398, 121403 121452, 121461 121461",
             "121476 121476, 121499 121503, 121505 121519, 122880 122886",
             "122888 122904, 122907 122913, 122915 122916, 122918 122922",
             "123184 123197, 123566 123566, 123628 123631, 125136 125142",
             "125252 125259, 127995 127999, 917505 917505, 917536 917631",
             "917760 917999">>)

\* the code points that the rule takes for letters with a case (Cased, and
\* not Case_Ignorable)
CasedRanges ==
    Table(<<"65 90, 97 122, 170 170, 181 181, 186 186, 192 214, 216 246, 248 442",
             "444 447, 452 659, 661 687, 880 883, 886 887, 891 893, 895 895, 902 902",
             "904 906, 908 908, 910 929, 931 1013, 1015 1153, 1162 1327, 1329 1366",
             "1376 1416, 4256 4293, 4295 4295, 4301 4301, 4304 4346, 4349 4351",
             "5024 5109, 5112 5117, 7296 7304, 7312 7354, 7357 7359, 7424 7467",
             "7531 7543, 7545 7578, 7680 7957, 7960 7965, 7968 8005, 8008 8013",
             "8016 8023, 8025 8025, 8027 8027, 8029 8029, 8031 8061, 8064 8116",
             "8118 8124, 8126 8126, 8130 8132, 8134 8140, 8144 8147, 8150 8155",
             "8160 8172, 8178 8180, 8182 8188, 8450 8450, 8455 8455, 8458 8467",
             "8469 8469, 8473 8477, 8484 8484, 8486 8486, 8488 8488, 8490 8493",
             "8495 8500, 8505 8505, 8508 8511, 8517 8521, 8526 8526, 8544 8575",
             "8579 8580, 9398 9449, 11264 11387, 11390 11492, 11499 11502",
             "11506 11507, 11520 11557, 11559 11559, 11565 11565, 42560 42605",
             "42624 42651, 42786 42863, 42865 42887, 42891 42894, 42896 42954",
             "42960 42961, 42963 42963, 42965 42969, 42997 42998, 43002 43002",
             "43824 43866, 43872 43880, 43888 43967, 64256 64262, 64275 64279",
             "65313 65338, 65345 65370, 66560 66639, 66736 66771, 66776 66811",
             "66928 66938, 66940 66954, 66956 66962, 66964 66965, 66967 66977",
             "66979 66993, 66995 67001, 67003 67004, 68736 68786, 68800 68850",
             "71840 71903, 93760 93823, 119808 119892, 119894 119964, 119966 119967",
             "119970 119970, 119973 119974, 119977 119980, 119982 119993",
             "119995 119995, 119997 120003, 120005 120069, 120071 120074",
             "120077 120084, 120086 120092, 120094 120121, 120123 120126",
             "120128 120132, 120134 120134, 120138 120144, 120146 120485",
             "120488 120512, 120514 120538, 120540 120570, 120572 120596",
             "120598 120628, 120630 120654, 120656 120686, 120688 120712",
             "120714 120744, 120746 120770, 120772 120779, 122624 122633",
             "122635 122654, 125184 125251, 127280 127305, 127312 127337",
             "127344 127369">>)

\* the small letters that re.IGNORECASE takes for one another beyond their
\* case: each class as the set of its code points
ExtraCases ==
    {Range(class) : class \in Table(<<"105 305, 115 383, 181 956, 837 953 8126, 912 8147, 944 8163, 946 976",
             "949 1013, 952 977, 954 1008, 960 982, 961 1009, 962 963, 966 981",
             "1074 7296, 1076 7297, 1086 7298, 1089 7299, 1090 7300 7301, 1098 7302",
             "1123 7303, 7304 42571, 7777 7835, 64261 64262">>)}

IsSpace(c) == InRanges(Ord(c), SpaceRanges)

\* the characters the pattern \w matches
IsWordChar(c) == InRanges(Ord(c), WordRanges)

\* the characters the pattern \d matches
IsDecimal(c) == InRanges(Ord(c), DecimalRanges)

\* int(c) for such a character
DecimalVal(c) ==
    LET ValueOf(n) ==
            TheOne({(n - r[1]) % 10 :
                        r \in {t \in DecimalRanges : t[1] <= n /\ n <= t[2]}}, 0)
    IN  ValueOf(Ord(c))

\* the code point of the small letter of the code point n (the one-to-one
\* mapping, which the re module uses)
LowerCode(n) ==
    TheOne({n + (r[4] - r[1]) :
                r \in {t \in LowerRuns : t[1] <= n /\ n <= t[2] /\ (n - t[1]) % t[3] = 0}}, n)

\* c.lower() for one character: a string of one character, but for the
\* capital I with a dot above (U+0130), which gives i and the combining dot
LowerChar(c) ==
    IF c = "U+0130" THEN <<"i", "U+0307">>
    ELSE <<Chr(LowerCode(Ord(c)))>>

\* s.lower(): character by character, but for the capital sigma, which gives
\* the final small sigma at the end of a word: when the nearest character
\* before it that is not skipped has a case, and the nearest after it, if
\* any, has none
Lower(s) ==
    LET FinalSigma(k, kept, cased) ==
            LET before == {j \in kept : j < k}
                after == {j \in kept : j > k}
            IN  /\ before # {}
                /\ (CHOOSE j \in before : \A i \in before : i <= j) \in cased
                /\ \/ after = {}
                   \/ (CHOOSE j \in after : \A i \in after : i >= j) \notin cased
        LowerWith(kept, cased) ==
            Concat([k \in 1..Len(s) |->
                       IF s[k] = "Σ"
                       THEN (IF FinalSigma(k, kept, cased) THEN <<"ς">> ELSE <<"σ">>)
                       ELSE LowerChar(s[k])])
    IN  LowerWith({j \in 1..Len(s) : ~InRanges(Ord(s[j]), CaseIgnorableRanges)},
                  {j \in 1..Len(s) : InRanges(Ord(s[j]), CasedRanges)})

\* s.strip()
Strip(s) ==
    LET keep == {k \in 1..Len(s) : ~IsSpace(s[k])}
    IN  IF keep = {} THEN <<>>
        ELSE SubSeq(s, CHOOSE k \in keep : \A j \in keep : k <= j,
                       CHOOSE k \in keep : \A j \in keep : k >= j)

\* the least index k >= from with s[k] = c, or 0
IndexFrom(s, c, from) ==
    LET hits == {k \in from..Len(s) : s[k] = c}
    IN  IF hits = {} THEN 0 ELSE CHOOSE k \in hits : \A j \in hits : k <= j

\* the least index k >= from where old occurs in s, or 0
FindFrom(s, old, from) ==
    LET hits == {k \in from..(Len(s) - Len(old) + 1) :
                    SubSeq(s, k, k + Len(old) - 1) = old}
    IN  IF hits = {} THEN 0 ELSE CHOOSE k \in hits : \A j \in hits : k <= j

\* s.replace(old, new) from index `from` on: the non-overlapping occurrences,
\* leftmost first (the empty string occurs before every character and at the
\* end)
RECURSIVE ReplaceFrom(_, _, _, _)
ReplaceFrom(s, old, new, from) ==
    LET k == FindFrom(s, old, from)
    IN  IF k = 0 THEN SubSeq(s, from, Len(s))
        ELSE IF old = <<>>
             THEN IF k > Len(s) THEN new
                  ELSE new \o <<s[k]>> \o ReplaceFrom(s, old, new, k + 1)
             ELSE SubSeq(s, from, k - 1) \o new
                      \o ReplaceFrom(s, old, new, k + Len(old))

Replace(s, old, new) == ReplaceFrom(s, old, new, 1)

\* s.split(sep) for a one-character separator
RECURSIVE SplitOn(_, _)
SplitOn(s, sep) ==
    LET k == IndexFrom(s, sep, 1)
    IN  IF k = 0 THEN <<s>>
        ELSE <<SubSeq(s, 1, k - 1)>> \o SplitOn(SubSeq(s, k + 1, Len(s)), sep)

UpperChars ==
    <<"A", "B", "C", "D", "E", "F", "G", "H", "I", "J", "K", "L", "M",
      "N", "O", "P", "Q", "R", "S", "T", "U", "V", "W", "X", "Y", "Z">>
LowerChars ==
    <<"a", "b", "c", "d", "e", "f", "g", "h", "i", "j", "k", "l", "m",
      "n", "o", "p", "q", "r", "s", "t", "u", "v", "w", "x", "y", "z">>
DigitChars == <<"0", "1", "2", "3", "4", "5", "6", "7", "8", "9">>

(***************************************************************************)
(* re.sub(pattern, repl, string) with the flags of line 546: none.  The    *)
(* pattern is parsed as the re module parses it, matched by backtracking   *)
(* in the order of the re module, and the replacement is read as a         *)
(* template.  The outcome is a record: st = "ok" with the new string in s, *)
(* st = "raise" when the call raises (re.error, or OverflowError for a     *)
(* repetition number too large), and st = "beyond" for the constructs that *)
(* this model does not cover: in a pattern the escapes \a, \x, \u, \U,    *)
(* \N, \0 and the octal ones, \b in a set, named groups (?P...),          *)
(* conditions (?(...)...), look-behind (?<=...) (?<!...), the flags        *)
(* (?aiLmsux-...), and a possessive repetition of an item that holds an    *)
(* alternation or a negative look-ahead with a capturing group in it; in   *)
(* a replacement \g<name> for a name that is neither a number in ASCII     *)
(* digits nor an ASCII identifier; and under re.IGNORECASE a set with a    *)
(* member beyond U+FFFF.                                                   *)
(***************************************************************************)

AsciiLetters == Range(UpperChars) \cup Range(LowerChars)
OctDigits == {"0", "1", "2", "3", "4", "5", "6", "7"}
DigitVal(c) == (CHOOSE k \in 1..10 : DigitChars[k] = c) - 1

\* the character of the escapes \f \n \r \t \v \\
EscapeChar(c) ==
    CASE c = "f" -> "\f" [] c = "n" -> "\n" [] c = "r" -> "\r"
      [] c = "t" -> "\t" [] c = "v" -> "" [] OTHER -> c

\* the result of a step of the parser: st is "ok", "raise" or "beyond"; node
\* is what was parsed, pos the place of the next character, groups the number
\* of the next capturing group (state.groups) and closed the groups closed so
\* far
ReOk(node, pos, groups, closed) ==
    [st |-> "ok", node |-> node, pos |-> pos, groups |-> groups, closed |-> closed]
ReStop(st) ==
    [st |-> st, node |-> [op |-> "seq", items |-> <<>>], pos |-> 0,
     groups |-> 0, closed |-> {}]

\* _escape: the escape at p[pos] = "\" outside a set
ReEscape(p, pos, groups, closed) ==
    IF pos >= Len(p) THEN ReStop("raise")
    ELSE LET c == p[pos + 1]
             two == pos + 2 <= Len(p) /\ p[pos + 2] \in Range(DigitChars)
             octal == /\ two
                      /\ c \in OctDigits /\ p[pos + 2] \in OctDigits
                      /\ pos + 3 <= Len(p) /\ p[pos + 3] \in OctDigits
             group == IF two THEN 10 * DigitVal(c) + DigitVal(p[pos + 2])
                      ELSE DigitVal(c)
         IN  IF c \in {"A", "Z", "b", "B"}
             THEN ReOk([op |-> "at", c |-> c], pos + 2, groups, closed)
             ELSE IF c \in {"d", "D", "s", "S", "w", "W"}
             THEN ReOk([op |-> "cat", c |-> c], pos + 2, groups, closed)
             ELSE IF c \in {"f", "n", "r", "t", "v", "\\"}
             THEN ReOk([op |-> "lit", c |-> EscapeChar(c)], pos + 2, groups, closed)
             ELSE IF c \in {"a", "x", "u", "U", "N", "0"}
             THEN ReStop("beyond")
             ELSE IF c \in Range(DigitChars)
             THEN IF octal THEN ReStop("beyond")
                  ELSE IF group < groups /\ group \in closed
                       THEN ReOk([op |-> "ref", idx |-> group],
                                 pos + (IF two THEN 3 ELSE 2), groups, closed)
                       ELSE ReStop("raise")
             ELSE IF c \in AsciiLetters THEN ReStop("raise")
             ELSE ReOk([op |-> "lit", c |-> c], pos + 2, groups, closed)

\* _class_escape, or a literal: the member of a set at p[pos], as a record
\* with k = "range" for the characters from lo to hi and k = "cat" for the
\* category lo
ReSetMember(p, pos) ==
    IF p[pos] # "\\"
    THEN [st |-> "ok", k |-> "range", lo |-> p[pos], hi |-> p[pos], pos |-> pos + 1]
    ELSE IF pos >= Len(p) THEN [st |-> "raise", k |-> "", lo |-> "", hi |-> "", pos |-> 0]
    ELSE LET c == p[pos + 1]
         IN  IF c \in {"f", "n", "r", "t", "v", "\\"}
             THEN [st |-> "ok", k |-> "range", lo |-> EscapeChar(c),
                   hi |-> EscapeChar(c), pos |-> pos + 2]
             ELSE IF c \in {"d", "D", "s", "S", "w", "W"}
             THEN [st |-> "ok", k |-> "cat", lo |-> c, hi |-> c, pos |-> pos + 2]
             ELSE IF c \in {"a", "b", "x", "u", "U", "N"} \cup OctDigits
             THEN [st |-> "beyond", k |-> "", lo |-> "", hi |-> "", pos |-> 0]
             ELSE IF c \in AsciiLetters \cup {"8", "9"}
             THEN [st |-> "raise", k |-> "", lo |-> "", hi |-> "", pos |-> 0]
             ELSE [st |-> "ok", k |-> "range", lo |-> c, hi |-> c, pos |-> pos + 2]

\* the members of a set from p[pos] up to its "]"
RECURSIVE ReParseSet(_, _, _)

\* after the two ends code1 and code2 of a range
ReRangeThen(p, items, code1, code2) ==
    IF code2.st # "ok" THEN [st |-> code2.st, items |-> <<>>, pos |-> 0]
    ELSE IF code1.k # "range" \/ code2.k # "range"
    THEN [st |-> "raise", items |-> <<>>, pos |-> 0]
    ELSE IF Ord(code2.lo) < Ord(code1.lo)
    THEN [st |-> "raise", items |-> <<>>, pos |-> 0]
    ELSE ReParseSet(p, code2.pos,
                    Append(items, [k |-> "range", lo |-> code1.lo, hi |-> code2.lo]))

\* after the member code1: a "-" makes it the low end of a range, unless the
\* set ends there
ReMemberThen(p, items, code1) ==
    IF code1.st # "ok" THEN [st |-> code1.st, items |-> <<>>, pos |-> 0]
    ELSE IF code1.pos <= Len(p) /\ p[code1.pos] = "-"
    THEN IF code1.pos + 1 > Len(p)
         THEN [st |-> "raise", items |-> <<>>, pos |-> 0]
         ELSE IF p[code1.pos + 1] = "]"
         THEN [st |-> "ok", pos |-> code1.pos + 2,
               items |-> items \o <<[k |-> code1.k, lo |-> code1.lo, hi |-> code1.hi],
                                    [k |-> "range", lo |-> "-", hi |-> "-"]>>]
         ELSE ReRangeThen(p, items, code1, ReSetMember(p, code1.pos + 1))
    ELSE ReParseSet(p, code1.pos,
                    Append(items, [k |-> code1.k, lo |-> code1.lo, hi |-> code1.hi]))

ReParseSet(p, pos, items) ==
    IF pos > Len(p) THEN [st |-> "raise", items |-> <<>>, pos |-> 0]
    ELSE IF p[pos] = "]" /\ items # <<>>
    THEN [st |-> "ok", items |-> items, pos |-> pos + 1]
    ELSE ReMemberThen(p, items, ReSetMember(p, pos))

\* the digits from p[pos] on
RECURSIVE DigitsAt(_, _)
DigitsAt(p, pos) ==
    IF pos <= Len(p) /\ p[pos] \in Range(DigitChars)
    THEN <<p[pos]>> \o DigitsAt(p, pos + 1)
    ELSE <<>>

RECURSIVE StripZeros(_)
StripZeros(ds) == IF ds # <<>> /\ Head(ds) = "0" THEN StripZeros(Tail(ds)) ELSE ds

\* int(a) < int(b) for two strings of digits
RECURSIVE DigitsLess(_, _)
DigitsLess(a, b) ==
    IF a = <<>> THEN FALSE
    ELSE IF Head(a) # Head(b) THEN DigitVal(Head(a)) < DigitVal(Head(b))
    ELSE DigitsLess(Tail(a), Tail(b))
NumLess(a, b) ==
    \/ Len(StripZeros(a)) < Len(StripZeros(b))
    \/ /\ Len(StripZeros(a)) = Len(StripZeros(b))
       /\ DigitsLess(StripZeros(a), StripZeros(b))

\* MAXREPEAT = 4294967295
MAXREPEAT == <<"4", "2", "9", "4", "9", "6", "7", "2", "9", "5">>

\* int(ds), but 10^9 for the numbers from 10^9 on: no string is that long
RECURSIVE DigitsVal(_, _)
DigitsVal(ds, acc) ==
    IF ds = <<>> THEN acc ELSE DigitsVal(Tail(ds), 10 * acc + DigitVal(Head(ds)))
NumVal(ds) ==
    IF Len(StripZeros(ds)) > 9 THEN 10 ^ 9 ELSE DigitsVal(StripZeros(ds), 0)

\* the repetition at p[pos], one of * + ? {: st = "lit" when the "{" is a
\* literal, and otherwise the bounds (max = -1 for no bound), the mode and
\* the place after it
ReRepeatAt(p, pos) ==
    LET lo == DigitsAt(p, pos + 1)
        comma == pos + 1 + Len(lo)
        hasComma == comma <= Len(p) /\ p[comma] = ","
        hi == IF hasComma THEN DigitsAt(p, comma + 1) ELSE lo
        close == IF hasComma THEN comma + 1 + Len(hi) ELSE comma
        end == IF p[pos] = "{" THEN close + 1 ELSE pos + 1
        mode == IF end <= Len(p) /\ p[end] = "?" THEN "lazy"
                ELSE IF end <= Len(p) /\ p[end] = "+" THEN "poss"
                ELSE "greedy"
        next == IF mode = "greedy" THEN end ELSE end + 1
    IN  IF p[pos] = "?"
        THEN [st |-> "ok", min |-> 0, max |-> 1, mode |-> mode, pos |-> next]
        ELSE IF p[pos] = "*"
        THEN [st |-> "ok", min |-> 0, max |-> -1, mode |-> mode, pos |-> next]
        ELSE IF p[pos] = "+"
        THEN [st |-> "ok", min |-> 1, max |-> -1, mode |-> mode, pos |-> next]
        ELSE IF pos + 1 <= Len(p) /\ p[pos + 1] = "}"
        THEN [st |-> "lit", min |-> 0, max |-> 0, mode |-> "", pos |-> pos + 1]
        ELSE IF ~(close <= Len(p) /\ p[close] = "}")
        THEN [st |-> "lit", min |-> 0, max |-> 0, mode |-> "", pos |-> pos + 1]
        ELSE IF (lo # <<>> /\ ~NumLess(lo, MAXREPEAT)) THEN
             [st |-> "raise", min |-> 0, max |-> 0, mode |-> "", pos |-> 0]
        ELSE IF (hi # <<>> /\ (~NumLess(hi, MAXREPEAT) \/ NumLess(hi, lo)))
        THEN [st |-> "raise", min |-> 0, max |-> 0, mode |-> "", pos |-> 0]
        ELSE [st |-> "ok", min |-> NumVal(lo),
              max |-> IF hi = <<>> THEN -1 ELSE NumVal(hi),
              mode |-> mode, pos |-> next]

\* _parse_sub and _parse: the branches between "|", and the items of a branch
RECURSIVE ReParseBranches(_, _, _, _, _)
RECURSIVE ReParseItems(_, _, _, _, _)

\* after the contents r of a group: its ")", and the group is closed
ReGroupThen(p, kind, gid, r) ==
    IF r.st # "ok" THEN r
    ELSE IF ~(r.pos <= Len(p) /\ p[r.pos] = ")") THEN ReStop("raise")
    ELSE ReOk([op |-> kind, idx |-> gid, item |-> r.node], r.pos + 1, r.groups,
              IF kind = "group" THEN r.closed \cup {gid} ELSE r.closed)

\* the group whose contents start at p[pos]: kind is "group" for a capturing
\* group, and "plain", "atomic", "ahead" or "notahead" otherwise
ReParseGroup(p, pos, groups, closed, kind) ==
    ReGroupThen(p, kind, IF kind = "group" THEN groups ELSE 0,
                ReParseBranches(p, pos, <<>>,
                                IF kind = "group" THEN groups + 1 ELSE groups, closed))

\* after the item r: the items that follow it
ReItemThen(p, items, r) ==
    IF r.st # "ok" THEN r
    ELSE ReParseItems(p, r.pos, Append(items, r.node), r.groups, r.closed)

ReSetThen(p, items, groups, closed, neg, set) ==
    IF set.st # "ok" THEN ReStop(set.st)
    ELSE ReParseItems(p, set.pos,
                      Append(items, [op |-> "set", neg |-> neg, items |-> set.items]),
                      groups, closed)

\* after the repetition rep at p[pos]: it takes the item before it, which is
\* there ("nothing to repeat") and is no repetition ("multiple repeat")
ReRepeatThen(p, pos, items, groups, closed, rep) ==
    IF rep.st = "lit"
    THEN ReParseItems(p, pos + 1, Append(items, [op |-> "lit", c |-> p[pos]]),
                      groups, closed)
    ELSE IF rep.st # "ok" THEN ReStop(rep.st)
    ELSE IF items = <<>> THEN ReStop("raise")
    ELSE IF items[Len(items)].op \in {"at", "rep"} THEN ReStop("raise")
    ELSE ReParseItems(p, rep.pos,
                      [items EXCEPT ![Len(items)] =
                          [op |-> "rep", min |-> rep.min, max |-> rep.max,
                           mode |-> rep.mode, item |-> @]],
                      groups, closed)

\* the place of the ")" that ends the comment whose text starts at p[k], or
\* 0 when none does: the pattern is read token by token, and a backslash
\* with the character after it is one token
RECURSIVE ReCommentEnd(_, _)
ReCommentEnd(p, k) ==
    IF k > Len(p) THEN 0
    ELSE IF p[k] = ")" THEN k
    ELSE IF p[k] = "\\" THEN ReCommentEnd(p, k + 2)
    ELSE ReCommentEnd(p, k + 1)

ReParseItems(p, pos, items, groups, closed) ==
    IF pos > Len(p) \/ p[pos] \in {"|", ")"}
    THEN ReOk([op |-> "seq", items |-> items], pos, groups, closed)
    ELSE LET c == p[pos]
             neg == pos + 1 <= Len(p) /\ p[pos + 1] = "^"
             ext == pos + 1 <= Len(p) /\ p[pos + 1] = "?"
             char == p[pos + 2]
             comment == ReCommentEnd(p, pos + 3)
             kind == IF ~ext THEN "group"
                     ELSE CASE char = ":" -> "plain" [] char = ">" -> "atomic"
                            [] char = "=" -> "ahead" [] OTHER -> "notahead"
         IN  IF c = "\\" THEN ReItemThen(p, items, ReEscape(p, pos, groups, closed))
             ELSE IF c = "["
             THEN ReSetThen(p, items, groups, closed, neg,
                            ReParseSet(p, IF neg THEN pos + 2 ELSE pos + 1, <<>>))
             ELSE IF c \in {"*", "+", "?", "{"}
             THEN ReRepeatThen(p, pos, items, groups, closed, ReRepeatAt(p, pos))
             ELSE IF c = "("
             THEN IF ext /\ pos + 2 > Len(p) THEN ReStop("raise")
                  ELSE IF ext /\ char = "#"
                  THEN IF comment = 0 THEN ReStop("raise")
                       ELSE ReParseItems(p, comment + 1, items, groups, closed)
                  ELSE IF ext /\ char = "<"
                  THEN IF pos + 3 <= Len(p) /\ p[pos + 3] \in {"=", "!"}
                       THEN ReStop("beyond") ELSE ReStop("raise")
                  ELSE IF ext /\ char \in {"P", "(", "-", "a", "i", "L", "m", "s", "u", "x"}
                  THEN ReStop("beyond")
                  ELSE IF ext /\ char \notin {":", ">", "=", "!"} THEN ReStop("raise")
                  ELSE ReItemThen(p, items,
                           ReParseGroup(p, IF ext THEN pos + 3 ELSE pos + 1,
                                        groups, closed, kind))
             ELSE IF c = "." THEN ReParseItems(p, pos + 1, Append(items, [op |-> "any"]), groups, closed)
             ELSE IF c \in {"^", "$"}
             THEN ReParseItems(p, pos + 1, Append(items, [op |-> "at", c |-> c]), groups, closed)
             ELSE ReParseItems(p, pos + 1, Append(items, [op |-> "lit", c |-> c]), groups, closed)

\* after the branch r: another one after a "|"
ReBranchThen(p, branches, r) ==
    IF r.st # "ok" THEN r
    ELSE IF r.pos <= Len(p) /\ p[r.pos] = "|"
    THEN ReParseBranches(p, r.pos + 1, Append(branches, r.node), r.groups, r.closed)
    ELSE IF branches = <<>> THEN r
    ELSE ReOk([op |-> "alt", items |-> Append(branches, r.node)],
              r.pos, r.groups, r.closed)

ReParseBranches(p, pos, branches, groups, closed) ==
    ReBranchThen(p, branches, ReParseItems(p, pos, <<>>, groups, closed))

\* the whole pattern r: what is left after the branches is a ")" without "("
ReParseEnd(p, r) == IF r.st = "ok" /\ r.pos <= Len(p) THEN ReStop("raise") ELSE r

\* whether the node n holds a capturing group
RECURSIVE ReHasGroup(_)
ReHasGroup(n) ==
    IF n.op = "group" THEN TRUE
    ELSE IF n.op \in {"seq", "alt"}
    THEN \E k \in 1..Len(n.items) : ReHasGroup(n.items[k])
    ELSE IF n.op \in {"rep", "plain", "atomic", "ahead", "notahead"}
    THEN ReHasGroup(n.item)
    ELSE FALSE

\* whether n holds an alternation or a negative look-ahead that has a
\* capturing group in it and stands in the item of a possessive repetition;
\* `under` tells that n itself stands in such an item.  The matcher of this
\* interpreter keeps there the group marks of an alternative that failed, and
\* what the groups hold after the match is outside this model.
RECURSIVE ReKeepsFailedMarks(_, _)
ReKeepsFailedMarks(n, under) ==
    IF n.op \in {"seq", "alt"}
    THEN \/ n.op = "alt" /\ under /\ ReHasGroup(n)
         \/ \E k \in 1..Len(n.items) : ReKeepsFailedMarks(n.items[k], under)
    ELSE IF n.op = "rep" THEN ReKeepsFailedMarks(n.item, under \/ n.mode = "poss")
    ELSE IF n.op \in {"group", "plain", "atomic", "ahead", "notahead"}
    THEN \/ n.op = "notahead" /\ under /\ ReHasGroup(n)
         \/ ReKeepsFailedMarks(n.item, under)
    ELSE FALSE

\* the pattern r after parsing: beyond the model when its matching keeps
\* such marks
ReParsed(r) ==
    IF r.st = "ok" /\ ReKeepsFailedMarks(r.node, FALSE) THEN ReStop("beyond") ELSE r

\* parse(pattern)
ReParse(pattern) ==
    ReParsed(ReParseEnd(pattern, ReParseBranches(pattern, 1, <<>>, 1, {})))

\* the character c is of the category \d \D \s \S \w \W
InCategory(cat, c) ==
    CASE cat = "d" -> IsDecimal(c)
      [] cat = "D" -> ~IsDecimal(c)
      [] cat = "s" -> IsSpace(c)
      [] cat = "S" -> ~IsSpace(c)
      [] cat = "w" -> IsWordChar(c)
      [] OTHER -> ~IsWordChar(c)

InSetMember(it, c) ==
    IF it.k = "cat" THEN InCategory(it.lo, c)
    ELSE IF it.lo = it.hi THEN c = it.lo
    ELSE Ord(it.lo) <= Ord(c) /\ Ord(c) <= Ord(it.hi)

\* two characters are the same under re.IGNORECASE when FoldChar of them is:
\* the code point of their small letter, or the least code point of its
\* class when it is one of the letters that re.IGNORECASE takes for another
\* beyond that
FoldChar(c) ==
    LET Least(codes) == CHOOSE n \in codes : \A m \in codes : n <= m
        ClassOf(lo) == {lo} \cup UNION {e \in ExtraCases : lo \in e}
    IN  Least(ClassOf(LowerCode(Ord(c))))

\* the code points whose small letter has the code point y
Unfolded(y) ==
    (IF LowerCode(y) = y THEN {y} ELSE {})
        \cup {y - (r[4] - r[1]) :
                 r \in {t \in LowerRuns :
                           /\ t[1] <= y - (t[4] - t[1]) /\ y - (t[4] - t[1]) <= t[2]
                           /\ (y - (t[4] - t[1]) - t[1]) % t[3] = 0}}

\* the code points that are the same as the character c under re.IGNORECASE
SameIgnoringCase(c) ==
    LET lo == LowerCode(Ord(c))
    IN  UNION {Unfolded(y) : y \in {lo} \cup UNION {e \in ExtraCases : lo \in e}}

\* a member of a set under re.IGNORECASE: a character of the member is the
\* same as c
InSetMemberIgnoreCase(it, c) ==
    IF it.k = "cat" THEN InCategory(it.lo, c)
    ELSE \E i \in SameIgnoringCase(c) : Ord(it.lo) <= i /\ i <= Ord(it.hi)

\* the node n compiled with re.IGNORECASE: its literals, sets and references
\* to groups compare without case
RECURSIVE ReFold(_)
ReFold(n) ==
    IF n.op \in {"lit", "set", "ref"}
    THEN [n EXCEPT !.op = CASE n.op = "lit" -> "lit_ignore"
                            [] n.op = "set" -> "set_ignore"
                            [] OTHER -> "ref_ignore"]
    ELSE IF n.op \in {"seq", "alt"}
    THEN [n EXCEPT !.items = [k \in 1..Len(n.items) |-> ReFold(n.items[k])]]
    ELSE IF n.op \in {"rep", "group", "plain", "atomic", "ahead", "notahead"}
    THEN [n EXCEPT !.item = ReFold(n.item)]
    ELSE n

\* whether n holds a set with a member beyond U+FFFF
RECURSIVE ReHasWideSet(_)
ReHasWideSet(n) ==
    IF n.op = "set"
    THEN \E k \in 1..Len(n.items) : n.items[k].k # "cat" /\ Ord(n.items[k].hi) > 65535
    ELSE IF n.op \in {"seq", "alt"}
    THEN \E k \in 1..Len(n.items) : ReHasWideSet(n.items[k])
    ELSE IF n.op \in {"rep", "group", "plain", "atomic", "ahead", "notahead"}
    THEN ReHasWideSet(n.item)
    ELSE FALSE

\* the parsed pattern compiled with flags=re.IGNORECASE
ReIgnoreCase(parsed) ==
    IF parsed.st # "ok" THEN parsed
    ELSE IF ReHasWideSet(parsed.node) THEN ReStop("beyond")
    ELSE [parsed EXCEPT !.node = ReFold(parsed.node)]

\* the assertions ^ $ \A \Z \b \B at place pos of s
AtPlace(at, s, pos) ==
    LET before == pos > 1 /\ IsWordChar(s[pos - 1])
        after == pos <= Len(s) /\ IsWordChar(s[pos])
    IN  CASE at \in {"^", "A"} -> pos = 1
          [] at = "$" -> pos = Len(s) + 1 \/ (pos = Len(s) /\ s[pos] = "\n")
          [] at = "Z" -> pos = Len(s) + 1
          [] at = "b" -> s # <<>> /\ before # after
          [] OTHER -> s # <<>> /\ before = after

\* the matches of a node from a state of the matcher, as the list of the
\* states after it in the order in which backtracking tries them.  A state is
\* the place pos in s and the groups caps: <<first, after last>>, or <<0, 0>>
\* for a group that took no part.
RECURSIVE ReMatch(_, _, _)
RECURSIVE ReMatchItems(_, _, _, _)
RECURSIVE ReMatchBranches(_, _, _, _)
RECURSIVE ReRepeat(_, _, _, _, _)
RECURSIVE ReRepeatEach(_, _, _, _, _)
RECURSIVE RePossessive(_, _, _, _, _)

\* the items from the k-th on, from each state of the list sts
ReMatchItems(items, k, s, sts) ==
    IF sts = <<>> THEN <<>>
    ELSE IF k > Len(items) THEN sts
    ELSE ReMatchItems(items, k + 1, s, ReMatch(items[k], s, Head(sts)))
         \o ReMatchItems(items, k, s, Tail(sts))

ReMatchBranches(branches, k, s, st) ==
    IF k > Len(branches) THEN <<>>
    ELSE ReMatch(branches[k], s, st) \o ReMatchBranches(branches, k + 1, s, st)

\* the repetition n after count items, the last item not bound to be there
\* having started at place last (0 for none): another item is tried unless
\* the one before was empty
ReRepeat(n, s, count, last, st) ==
    LET more == IF (n.max = -1 \/ count < n.max) /\ st.pos # last
                THEN ReRepeatEach(n, s, count + 1, st.pos, ReMatch(n.item, s, st))
                ELSE <<>>
    IN  IF count < n.min
        THEN ReRepeatEach(n, s, count + 1, last, ReMatch(n.item, s, st))
        ELSE IF n.mode = "lazy" THEN <<st>> \o more
        ELSE more \o <<st>>

ReRepeatEach(n, s, count, last, sts) ==
    IF sts = <<>> THEN <<>>
    ELSE ReRepeat(n, s, count, last, Head(sts)) \o ReRepeatEach(n, s, count, last, Tail(sts))

\* the possessive repetition: each item is matched in its first way and never
\* given up
RePossessiveThen(n, s, count, last, st, item) ==
    IF count < n.min
    THEN IF item = <<>> THEN <<>>
         ELSE RePossessive(n, s, count + 1, last, Head(item))
    ELSE IF (n.max = -1 \/ count < n.max) /\ st.pos # last /\ item # <<>>
    THEN RePossessive(n, s, count + 1, st.pos, Head(item))
    ELSE <<st>>
RePossessive(n, s, count, last, st) ==
    RePossessiveThen(n, s, count, last, st,
        IF count < n.min \/ ((n.max = -1 \/ count < n.max) /\ st.pos # last)
        THEN ReMatch(n.item, s, st) ELSE <<>>)

\* the states after a capturing group that started at place start
GroupStates(inner, idx, start) ==
    [k \in 1..Len(inner) |-> [inner[k] EXCEPT !.caps[idx] = <<start, inner[k].pos>>]]

\* the state after (?>...), and after (?=...) from place pos
FirstState(inner) == IF inner = <<>> THEN <<>> ELSE <<Head(inner)>>
AheadState(inner, pos) ==
    IF inner = <<>> THEN <<>> ELSE <<[Head(inner) EXCEPT !.pos = pos]>>

\* the state after a reference to a group of text `text`
RefState(s, st, text) ==
    IF st.pos + Len(text) - 1 <= Len(s) /\ SubSeq(s, st.pos, st.pos + Len(text) - 1) = text
    THEN <<[st EXCEPT !.pos = @ + Len(text)]>> ELSE <<>>

\* the same under re.IGNORECASE: the small letters of the characters are
\* compared, one by one
RefStateIgnoreCase(s, st, text) ==
    IF /\ st.pos + Len(text) - 1 <= Len(s)
       /\ \A k \in 1..Len(text) :
              LowerCode(Ord(s[st.pos + k - 1])) = LowerCode(Ord(text[k]))
    THEN <<[st EXCEPT !.pos = @ + Len(text)]>> ELSE <<>>

ReMatch(n, s, st) ==
    LET here == st.pos <= Len(s)
        step == <<[st EXCEPT !.pos = @ + 1]>>
    IN  CASE n.op = "lit" -> IF here /\ s[st.pos] = n.c THEN step ELSE <<>>
          [] n.op = "any" -> IF here /\ s[st.pos] # "\n" THEN step ELSE <<>>
          [] n.op = "cat" -> IF here /\ InCategory(n.c, s[st.pos]) THEN step ELSE <<>>
          [] n.op = "set" ->
                IF here /\ (n.neg # (\E k \in 1..Len(n.items) :
                                        InSetMember(n.items[k], s[st.pos])))
                THEN step ELSE <<>>
          [] n.op = "at" -> IF AtPlace(n.c, s, st.pos) THEN <<st>> ELSE <<>>
          [] n.op = "seq" -> ReMatchItems(n.items, 1, s, <<st>>)
          [] n.op = "alt" -> ReMatchBranches(n.items, 1, s, st)
          [] n.op = "rep" ->
                IF n.mode = "poss" THEN RePossessive(n, s, 0, 0, st)
                ELSE ReRepeat(n, s, 0, 0, st)
          [] n.op = "group" -> GroupStates(ReMatch(n.item, s, st), n.idx, st.pos)
          [] n.op = "plain" -> ReMatch(n.item, s, st)
          [] n.op = "atomic" -> FirstState(ReMatch(n.item, s, st))
          [] n.op = "ahead" -> AheadState(ReMatch(n.item, s, st), st.pos)
          [] n.op = "notahead" -> IF ReMatch(n.item, s, st) = <<>> THEN <<st>> ELSE <<>>
          [] n.op = "lit_ignore" ->
                IF here /\ FoldChar(s[st.pos]) = FoldChar(n.c) THEN step ELSE <<>>
          [] n.op = "set_ignore" ->
                IF here /\ (n.neg # (\E k \in 1..Len(n.items) :
                                        InSetMemberIgnoreCase(n.items[k], s[st.pos])))
                THEN step ELSE <<>>
          [] n.op = "ref_ignore" ->
                IF st.caps[n.idx][1] = 0 THEN <<>>
                ELSE RefStateIgnoreCase(s, st, SubSeq(s, st.caps[n.idx][1],
                                                      st.caps[n.idx][2] - 1))
          [] OTHER ->
                IF st.caps[n.idx][1] = 0 THEN <<>>
                ELSE RefState(s, st, SubSeq(s, st.caps[n.idx][1], st.caps[n.idx][2] - 1))

\* the first match that starts at `start` or after: at `start` itself an empty
\* match does not count when must_advance is set.  found tells whether there
\* is one, and m is the state after it, from place b on.
RECURSIVE ReSearch(_, _, _, _, _)
ReSearchThen(node, ngroups, s, start, ok) ==
    IF ok # <<>> THEN [found |-> TRUE, b |-> start, m |-> Head(ok)]
    ELSE ReSearch(node, ngroups, s, start + 1, FALSE)
ReSearch(node, ngroups, s, start, must_advance) ==
    IF start > Len(s) + 1 THEN [found |-> FALSE, b |-> 0, m |-> [pos |-> 0, caps |-> <<>>]]
    ELSE ReSearchThen(node, ngroups, s, start,
             SelectSeq(ReMatch(node, s, [pos |-> start,
                                         caps |-> [k \in 1..ngroups |-> <<0, 0>>]]),
                       LAMBDA m : ~must_advance \/ m.pos # start))

\* the escape \g<name> of a replacement, the backslash at place pos: the
\* number of the group (0 for the whole match) in idx and the place after
\* the ">" in pos.  A name that is an identifier raises, there being no
\* named group in the patterns of this model.
ReGroupName(repl, pos, ngroups) ==
    LET ends == {k \in pos + 3..Len(repl) : repl[k] = ">"}
        close == CHOOSE k \in ends : \A j \in ends : k <= j
        name == SubSeq(repl, pos + 3, close - 1)
        identifier == /\ Range(name) \subseteq AsciiLetters \cup Range(DigitChars) \cup {"_"}
                      /\ Head(name) \notin Range(DigitChars)
    IN  IF pos + 2 > Len(repl) \/ repl[pos + 2] # "<" \/ ends = {}
        THEN [st |-> "raise", idx |-> 0, pos |-> 0]
        ELSE IF name = <<>> THEN [st |-> "raise", idx |-> 0, pos |-> 0]
        ELSE IF Range(name) \subseteq Range(DigitChars)
        THEN IF NumVal(name) > ngroups THEN [st |-> "raise", idx |-> 0, pos |-> 0]
             ELSE [st |-> "ok", idx |-> NumVal(name), pos |-> close + 1]
        ELSE IF identifier THEN [st |-> "raise", idx |-> 0, pos |-> 0]
        ELSE [st |-> "beyond", idx |-> 0, pos |-> 0]

\* parse_template: the replacement as a list of parts, a part being a
\* character (idx = 0), the number idx of a group, or the whole match
\* (idx = -1)
RECURSIVE ReTemplate(_, _, _, _)
ReTemplateGroup(repl, ngroups, parts, name) ==
    IF name.st # "ok" THEN [st |-> name.st, parts |-> <<>>]
    ELSE ReTemplate(repl, name.pos, ngroups,
                    Append(parts, [idx |-> IF name.idx = 0 THEN -1 ELSE name.idx, c |-> ""]))
ReTemplate(repl, pos, ngroups, parts) ==
    IF pos > Len(repl) THEN [st |-> "ok", parts |-> parts]
    ELSE IF repl[pos] # "\\"
    THEN ReTemplate(repl, pos + 1, ngroups, Append(parts, [idx |-> 0, c |-> repl[pos]]))
    ELSE IF pos = Len(repl) THEN [st |-> "raise", parts |-> <<>>]
    ELSE LET c == repl[pos + 1]
             OctAt(k) == k <= Len(repl) /\ repl[k] \in OctDigits
             two == pos + 2 <= Len(repl) /\ repl[pos + 2] \in Range(DigitChars)
             octal == two /\ c \in OctDigits /\ OctAt(pos + 2) /\ OctAt(pos + 3)
             index == IF two THEN 10 * DigitVal(c) + DigitVal(repl[pos + 2])
                      ELSE DigitVal(c)
             code == 64 * DigitVal(c) + 8 * DigitVal(repl[pos + 2]) + DigitVal(repl[pos + 3])
             zero == IF OctAt(pos + 2) /\ OctAt(pos + 3)
                     THEN [n |-> 8 * DigitVal(repl[pos + 2]) + DigitVal(repl[pos + 3]), pos |-> pos + 4]
                     ELSE IF OctAt(pos + 2)
                     THEN [n |-> DigitVal(repl[pos + 2]), pos |-> pos + 3]
                     ELSE [n |-> 0, pos |-> pos + 2]
         IN  IF c = "g" THEN ReTemplateGroup(repl, ngroups, parts, ReGroupName(repl, pos, ngroups))
             ELSE IF c = "0"
             THEN ReTemplate(repl, zero.pos, ngroups, Append(parts, [idx |-> 0, c |-> Chr(zero.n)]))
             ELSE IF c \in Range(DigitChars)
             THEN IF octal
                  THEN IF code > 255 THEN [st |-> "raise", parts |-> <<>>]
                       ELSE ReTemplate(repl, pos + 4, ngroups,
                                       Append(parts, [idx |-> 0, c |-> Chr(code)]))
                  ELSE IF index > ngroups THEN [st |-> "raise", parts |-> <<>>]
                  ELSE ReTemplate(repl, pos + (IF two THEN 3 ELSE 2), ngroups,
                                  Append(parts, [idx |-> index, c |-> ""]))
             ELSE IF c \in {"a", "b"}
             THEN ReTemplate(repl, pos + 2, ngroups,
                             Append(parts, [idx |-> 0, c |-> Chr(IF c = "a" THEN 7 ELSE 8)]))
             ELSE IF c \in {"f", "n", "r", "t", "v", "\\"}
             THEN ReTemplate(repl, pos + 2, ngroups,
                             Append(parts, [idx |-> 0, c |-> EscapeChar(c)]))
             ELSE IF c \in AsciiLetters THEN [st |-> "raise", parts |-> <<>>]
             ELSE ReTemplate(repl, pos + 2, ngroups,
                             parts \o <<[idx |-> 0, c |-> "\\"], [idx |-> 0, c |-> c]>>)

\* expand_template: the parts with the text of the groups of the match m
\* that started at place b, a group that took no part giving the empty
\* string
RECURSIVE ReExpand(_, _, _, _)
ReExpand(parts, s, b, m) ==
    IF parts = <<>> THEN <<>>
    ELSE (IF Head(parts).idx = 0 THEN <<Head(parts).c>>
          ELSE IF Head(parts).idx = -1 THEN SubSeq(s, b, m.pos - 1)
          ELSE IF m.caps[Head(parts).idx][1] = 0 THEN <<>>
          ELSE SubSeq(s, m.caps[Head(parts).idx][1], m.caps[Head(parts).idx][2] - 1))
         \o ReExpand(Tail(parts), s, b, m)

\* the loop of re.sub from the match `found` on: the text from place i up to
\* the match, its replacement, and the same after it
RECURSIVE ReSubLoop(_, _, _, _, _, _)
ReSubLoop(node, ngroups, parts, s, i, found) ==
    IF ~found.found THEN SubSeq(s, i, Len(s))
    ELSE SubSeq(s, i, found.b - 1) \o ReExpand(parts, s, found.b, found.m)
         \o ReSubLoop(node, ngroups, parts, s, found.m.pos,
                      ReSearch(node, ngroups, s, found.m.pos, found.m.pos = found.b))

ReSubParsed(parsed, template, s) ==
    IF parsed.st # "ok" THEN [st |-> parsed.st, s |-> <<>>]
    ELSE IF template.st # "ok" THEN [st |-> template.st, s |-> <<>>]
    ELSE [st |-> "ok",
          s |-> ReSubLoop(parsed.node, parsed.groups - 1, template.parts, s, 1,
                          ReSearch(parsed.node, parsed.groups - 1, s, 1, FALSE))]

ReTemplateFor(parsed, repl) ==
    IF parsed.st # "ok" THEN [st |-> parsed.st, parts |-> <<>>]
    ELSE ReTemplate(repl, 1, parsed.groups - 1, <<>>)

\* re.sub(pattern, repl, s)
ReSubWith(parsed, repl, s) == ReSubParsed(parsed, ReTemplateFor(parsed, repl), s)
ReSub(pattern, repl, s) == ReSubWith(ReParse(pattern), repl, s)

(***************************************************************************)
(* _gather_header_info                                                     *)
(***************************************************************************)

\* re.match(SN_HEADER_PATTERN, line) with SN_HEADER_PATTERN =
\* ^\|\s*(.*?):\s*(.*?)\s*\| and no flag: the line starts with "|"; group 1
\* runs from the first character after it that \s does not match up to a ":",
\* and group 2 from the first such character after that ":" up to the
\* characters matched by \s before the next "|".  "." matches every character
\* but the line break "\n", which \s does match: a group never holds a line
\* break, and the ":" is the first one for which neither group does.  The
\* result is <<>> for no match and <<group 1, group 2>> otherwise.
RECURSIVE SkipSpaces(_, _)
SkipSpaces(s, k) == IF k <= Len(s) /\ IsSpace(s[k]) THEN SkipSpaces(s, k + 1) ELSE k

RECURSIVE BackSpaces(_, _, _)
BackSpaces(s, k, low) ==
    IF k > low /\ IsSpace(s[k - 1]) THEN BackSpaces(s, k - 1, low) ELSE k

\* no "\n" among s[from], ..., s[to - 1]
NoLineBreak(s, from, to) == \A k \in from..(to - 1) : s[k] # "\n"

\* the steps of the match, in the order of the pattern: group 1 runs from
\* place p to the ":" at place c, the first ":" at place `from` or later;
\* group 2 runs from place q, the first character after the ":" that \s does
\* not match, up to the characters matched by \s before the "|" at place b,
\* the first "|" at q or later.  When group 2 would hold a line break the
\* matcher goes on to the next ":".
RECURSIVE HeaderMatchFrom(_, _, _)
HeaderBar(line, p, c, q, b) ==
    IF b = 0 THEN <<>>
    ELSE IF NoLineBreak(line, q, BackSpaces(line, b, q))
         THEN <<SubSeq(line, p, c - 1), SubSeq(line, q, BackSpaces(line, b, q) - 1)>>
         ELSE HeaderMatchFrom(line, p, c + 1)
HeaderValue(line, p, c, q) == HeaderBar(line, p, c, q, IndexFrom(line, "|", q))
HeaderColon(line, p, c) ==
    IF c = 0 \/ ~NoLineBreak(line, p, c) THEN <<>>
    ELSE HeaderValue(line, p, c, SkipSpaces(line, c + 1))
HeaderMatchFrom(line, p, from) == HeaderColon(line, p, IndexFrom(line, ":", from))

HeaderMatch(line) ==
    IF line = <<>> \/ Head(line) # "|" THEN <<>>
    ELSE HeaderMatchFrom(line, SkipSpaces(line, 2), SkipSpaces(line, 2))

\* the loop body of _gather_header_info: the fields after `line`
GatherStepMut(info, line) ==
    LET m == HeaderMatch(line)
    IN  IF m = <<>> THEN info
        ELSE LET key == Strip(m[1])
                 value == Strip(m[2])
             IN  IF key = <<"T", "i", "t", "l", "e">>
                 THEN [info EXCEPT !.title = Replace(value, <<"#">>, <<>>)]
                 ELSE IF key = <<"D", "a", "t", "e">>
                      THEN [info EXCEPT !.date = value]
                      ELSE IF key = <<"T", "a", "g", "s">>
                           THEN [info EXCEPT !.tags = SplitOn(value, ",")]
                           ELSE info
GatherStep(info, line) ==
    LET m == HeaderMatch(line)
    IN  IF m = <<>> THEN info
        ELSE LET key == Strip(m[1])
                 value == Strip(m[2])
             IN  IF key = <<"T", "i", "t", "l", "e">>
                 THEN [info EXCEPT !.title = Replace(value, <<"#">>, <<>>)]
                 ELSE IF key = <<"D", "a", "t", "e">>
                      THEN [info EXCEPT !.date = value]
                      ELSE IF key = <<"T", "a", "g", "s">>
                           THEN [info EXCEPT !.tags = @ \o SplitOn(value, ",")]
                           ELSE info

RECURSIVE GatherLoop(_, _)
GatherLoop(note, n) ==
    IF n = 0 THEN [title |-> <<>>, date |-> <<>>, tags |-> <<>>]
    ELSE GatherStep(GatherLoop(note, n - 1), note[n])

\* _gather_header_info(SN_HEADER_PATTERN, note)
_gather_header_info(note) == GatherLoop(note, Len(note))

(***************************************************************************)
(* _convert_title_to_slug and _convert_title_to_filename                   *)
(***************************************************************************)

\* re.sub(r"[-]+", "-", slug)
RECURSIVE SqueezeHyphens(_)
SqueezeHyphens(s) ==
    IF s = <<>> THEN <<>>
    ELSE IF Head(s) = "-" /\ Len(s) >= 2 /\ s[2] = "-"
         THEN SqueezeHyphens(Tail(s))
         ELSE <<Head(s)>> \o SqueezeHyphens(Tail(s))

_convert_title_to_slug(title) ==
    LET kept == SelectSeq(title, LAMBDA c : IsWordChar(c) \/ IsSpace(c) \/ c = "-")
    IN  Lower(SqueezeHyphens(Replace(Strip(kept), <<" ">>, <<"-">>)))

_convert_title_to_filename(title) ==
    _convert_title_to_slug(title) \o <<".", "m", "d">>

(***************************************************************************)
(* The configuration read from the environment.                            *)
(***************************************************************************)

\* os.environ.get("TAG_TO_DOWNLOAD"): "pub"
TAG_TO_DOWNLOAD == <<"p", "u", "b">>

\* os.environ.get("CONTINUOUS_NOTE_TAG"): "c:list"
CONTINUOUS_NOTE_TAG == <<"c", ":", "l", "i", "s", "t">>

\* IGNORED_TAGS = [TAG_TO_DOWNLOAD, "blog"]
IGNORED_TAGS == <<TAG_TO_DOWNLOAD, <<"b", "l", "o", "g">>>>

\* UNLISTED_TAGS for UNLISTED_TAGS="pub:hid,pub:sec": ["hid", "sec"]
UNLISTED_TAGS == <<<<"h", "i", "d">>, <<"s", "e", "c">>>>

\* os.environ.get("TITLE_SUBSTITUTIONS"): "til:TIL,blog:Blog,b:B"
TITLE_SUBSTITUTIONS ==
    <<"t", "i", "l", ":", "T", "I", "L", ",", "b", "l", "o", "g", ":", "B", "l", "o", "g",
      ",", "b", ":", "B">>

\* [tuple(item.split(":")) for item in text.split(",")], `text` being the
\* value of TITLE_SUBSTITUTIONS: an item without ":" gives a tuple of one
\* string, an item with two of them a tuple of three
TitleSubstitutions(text) ==
    [k \in 1..Len(SplitOn(text, ",")) |-> SplitOn(SplitOn(text, ",")[k], ":")]

\* TITLE_TO_SUMMARY_SUBSTITUTIONS for that value: [("til", "TIL"),
\* ("blog", "Blog"), ("b", "B")]; the second pattern-tag is one of the
\* IGNORED_TAGS
TITLE_TO_SUMMARY_SUBSTITUTIONS == TitleSubstitutions(TITLE_SUBSTITUTIONS)

\* os.environ.get("AUTHOR", "root")
AUTHOR == <<"r", "o", "o", "t">>

\* the text of templates/<SSG_TYPE>.md: the template of the repository's tests
Template ==
    <<"-", "-", "-", "\n", "t", "i", "t", "l", "e", ":", " ", "{", "{", "t",
      "i", "t", "l", "e", "}", "}", "\n", "a", "u", "t", "h", "o", "r", ":",
      " ", "{", "{", "a", "u", "t", "h", "o", "r", "}", "}", "\n", "t", "y",
      "p", "e", ":", " ", "p", "o", "s", "t", "\n", "u", "n", "l", "i", "s",
      "t", "e", "d", ":", " ", "{", "{", "u", "n", "l", "i", "s", "t", "e",
      "d", "}", "}", "\n", "d", "a", "t", "e", ":", " ", "{", "{", "d", "a",
      "t", "e", "}", "}", "\n", "u", "r", "l", ":", " ", "/", "{", "{", "s",
      "l", "u", "g", "}", "}", "/", "\n", "s", "u", "m", "m", "a", "r", "y",
      ":", " ", "{", "{", "s", "u", "m", "m", "a", "r", "y", "}", "}", "\n",
      "c", "a", "t", "e", "g", "o", "r", "i", "e", "s", ":", "\n", " ", " ",
      "-", " ", "{", "{", "t", "a", "g", "}", "}", "\n", "-", "-", "-">>

(***************************************************************************)
(* The continuous-note expansion.                                          *)
(***************************************************************************)

\* line.startswith("|") or line.endswith("|") or line.startswith("+-")
IsHeaderLine(line) ==
    \/ StartsWith(line, <<"|">>)
    \/ EndsWith(line, <<"|">>)
    \/ StartsWith(line, <<"+", "-">>)

_get_note_header(note) == SelectSeq(note, IsHeaderLine)

_remove_tag_from_note_header(note_header, tag, replacement) ==
    [k \in 1..Len(note_header) |->
        IF Contains(note_header[k], tag)
        THEN Replace(note_header[k], tag, replacement)
        ELSE note_header[k]]

\* one line of _adjust_note_header_title: the value of the Title field is the
\* pattern of re.sub, and the value with the addition its replacement.  The
\* outcome is that of re.sub: st = "ok" with the line in s, or st = "raise".
AdjustTitleLine(line, title_addition) ==
    LET m == HeaderMatch(line)
    IN  IF m # <<>> /\ Strip(m[1]) = <<"T", "i", "t", "l", "e">>
        THEN ReSub(Strip(m[2]), Strip(m[2]) \o title_addition, line)
        ELSE [st |-> "ok", s |-> line]

\* the header of the outcomes `lines`, unless one of them is no line: the
\* first such ends the loop
AdjustedHeader(lines) ==
    LET bad == {k \in 1..Len(lines) : lines[k].st # "ok"}
    IN  IF bad = {}
        THEN [st |-> "ok", header |-> [k \in 1..Len(lines) |-> lines[k].s]]
        ELSE [st |-> lines[CHOOSE k \in bad : \A j \in bad : k <= j].st, header |-> <<>>]

\* _adjust_note_header_title(note_header, title_addition): st = "ok" with the
\* new header, or st = "raise"
_adjust_note_header_title(note_header, title_addition) ==
    AdjustedHeader(
        [k \in 1..Len(note_header) |-> AdjustTitleLine(note_header[k], title_addition)])

\* str(n) for n >= 0
RECURSIVE IntToStr(_)
IntToStr(n) ==
    IF n < 10 THEN <<DigitChars[n + 1]>>
    ELSE IntToStr(n \div 10) \o <<DigitChars[(n % 10) + 1]>>

\* the note of the body line `line` under the header `adjusted`, before the
\* notes `rest` of the lines after it
ExpandedLine(adjusted, line, rest) ==
    IF adjusted.st # "ok" THEN [st |-> adjusted.st, notes |-> <<>>]
    ELSE IF rest.st # "ok" THEN rest
    ELSE [st |-> "ok",
          notes |-> << adjusted.header \o << <<>> >> \o <<Strip(line)>> >> \o rest.notes]

\* the loop of _split_continuous_note over the body lines, counting down: st
\* = "ok" with the notes, or st = "raise" when _adjust_note_header_title
\* raised
RECURSIVE ExpandBody(_, _, _)
ExpandBody(cnote_header, cnote_body, cnote_num_parts) ==
    IF cnote_body = <<>> THEN [st |-> "ok", notes |-> <<>>]
    ELSE IF Head(cnote_body) # <<>>
         THEN ExpandedLine(
                  _adjust_note_header_title(
                      cnote_header, <<" ", "-", " ">> \o IntToStr(cnote_num_parts)),
                  Head(cnote_body),
                  ExpandBody(cnote_header, Tail(cnote_body), cnote_num_parts - 1))
         ELSE ExpandBody(cnote_header, Tail(cnote_body), cnote_num_parts)

\* os.environ.get("CONTINUOUS_NOTE_TAG").split(":")[1]
ContinuousReplacement == SplitOn(CONTINUOUS_NOTE_TAG, ":")[2]

_split_continuous_note(note) ==
    LET cnote_header ==
            _remove_tag_from_note_header(
                _get_note_header(note), CONTINUOUS_NOTE_TAG, ContinuousReplacement)
        cnote_body == SubSeq(note, Len(cnote_header) + 2, Len(note))
        cnote_num_parts == Len(SelectSeq(cnote_body, LAMBDA l : l # <<>>))
    IN  ExpandBody(cnote_header, cnote_body, cnote_num_parts)

(***************************************************************************)
(* _process_note and what it calls.                                        *)
(***************************************************************************)

\* 'not line.startswith("|") and not line.endswith("|") and not
\* line.startswith("+-")'
_delete_existing_header(note) ==
    SelectSeq(note, LAMBDA line :
        /\ ~StartsWith(line, <<"|">>)
        /\ ~EndsWith(line, <<"|">>)
        /\ ~StartsWith(line, <<"+", "-">>))

\* for a non-empty note (note[0] raises IndexError on an empty one)
_delete_existing_title(note) ==
    IF StartsWith(note[1], <<"#", " ">>) THEN Tail(note) ELSE note

\* _convert_date_format: datetime.strptime(input_date, "%a, %d %b %Y %H:%M:%S")
\* matches the whole string against the pattern the format stands for (a
\* weekday name and a month name of three letters in any case, whitespace of
\* any length >= 1 where the format has a blank, numbers of one or two digits,
\* the year of four) and then builds the date, which raises for a value out
\* of range; the weekday is not compared with the date.
WeekdayNames ==
    {<<"m", "o", "n">>, <<"t", "u", "e">>, <<"w", "e", "d">>, <<"t", "h", "u">>,
     <<"f", "r", "i">>, <<"s", "a", "t">>, <<"s", "u", "n">>}
MonthNames ==
    <<<<"j", "a", "n">>, <<"f", "e", "b">>, <<"m", "a", "r">>, <<"a", "p", "r">>,
      <<"m", "a", "y">>, <<"j", "u", "n">>, <<"j", "u", "l">>, <<"a", "u", "g">>,
      <<"s", "e", "p">>, <<"o", "c", "t">>, <<"n", "o", "v">>, <<"d", "e", "c">>>>

\* whether the pattern \d matches every character of s
IsDigits(s) == \A k \in 1..Len(s) : IsDecimal(s[k])

RECURSIVE StrToInt(_)
StrToInt(s) ==
    IF s = <<>> THEN 0
    ELSE 10 * StrToInt(SubSeq(s, 1, Len(s) - 1)) + DecimalVal(s[Len(s)])

DaysInMonth(year, month) ==
    IF month = 2
    THEN IF (year % 4 = 0 /\ year % 100 # 0) \/ year % 400 = 0 THEN 29 ELSE 28
    ELSE IF month \in {4, 6, 9, 11} THEN 30 ELSE 31

\* the index after the digits that start at k
RECURSIVE SkipDigits(_, _)
SkipDigits(s, k) ==
    IF k <= Len(s) /\ IsDecimal(s[k]) THEN SkipDigits(s, k + 1) ELSE k

\* whether the digits t, one or two, are what strptime reads for a directive:
\* %d is 3[0-1]|[1-2]\d|0[1-9]|[1-9], %H is 2[0-3]|[0-1]\d|\d, %M is
\* [0-5]\d|\d and %S is 6[0-1]|[0-5]\d|\d, where \d is a digit of any script
FieldReads(directive, t) ==
    LET from(lo, hi) == {DigitChars[k + 1] : k \in lo..hi}
    IN  IF Len(t) = 1
        THEN IF directive = "d" THEN t[1] \in from(1, 9) ELSE IsDecimal(t[1])
        ELSE /\ Len(t) = 2
             /\ CASE directive = "d" ->
                         \/ t[1] = "3" /\ t[2] \in from(0, 1)
                         \/ t[1] \in from(1, 2) /\ IsDecimal(t[2])
                         \/ t[1] = "0" /\ t[2] \in from(1, 9)
                    [] directive = "H" ->
                         \/ t[1] = "2" /\ t[2] \in from(0, 3)
                         \/ t[1] \in from(0, 1) /\ IsDecimal(t[2])
                    [] directive = "M" -> t[1] \in from(0, 5) /\ IsDecimal(t[2])
                    [] OTHER ->
                         \/ t[1] = "6" /\ t[2] \in from(0, 1)
                         \/ t[1] \in from(0, 5) /\ IsDecimal(t[2])

\* the places of the fields in d: where the day starts and where it ends,
\* where the month and the year start, where the hour starts and ends, and
\* where the minute and the second end; each is found from the one before it
DatePlaces(d) ==
    LET Spaces(p, skip) == Append(p, SkipSpaces(d, p[Len(p)] + skip))
        Digits(p, skip) == Append(p, SkipDigits(d, p[Len(p)] + skip))
        Day(p) == Digits(Spaces(p, 5), 0)
        Month(p) == Spaces(p, 0)
        Year(p) == Spaces(p, 3)
        Hour(p) == Digits(Spaces(p, 4), 0)
        Minute(p) == Digits(p, 1)
        Second(p) == Digits(p, 1)
    IN  Tail(Second(Minute(Hour(Year(Month(Day(<<0>>)))))))

\* the fields strptime reads from d, `ok` telling whether it returns a date
ParseDate(d) ==
    LET ReadAt(p) ==
            LET day1 == p[1]
                day2 == p[2]
                mon1 == p[3]
                year1 == p[4]
                hour1 == p[5]
                hour2 == p[6]
                min2 == p[7]
                sec2 == p[8]
                matches ==
                    /\ Len(d) >= 4
                    /\ Lower(SubSeq(d, 1, 3)) \in WeekdayNames
                    /\ d[4] = ","
                    /\ day1 > 5 /\ FieldReads("d", SubSeq(d, day1, day2 - 1))
                    /\ mon1 > day2 /\ mon1 + 2 <= Len(d)
                    /\ Lower(SubSeq(d, mon1, mon1 + 2)) \in Range(MonthNames)
                    /\ year1 > mon1 + 3 /\ year1 + 3 <= Len(d)
                    /\ IsDigits(SubSeq(d, year1, year1 + 3))
                    /\ hour1 > year1 + 4 /\ FieldReads("H", SubSeq(d, hour1, hour2 - 1))
                    /\ hour2 <= Len(d) /\ d[hour2] = ":"
                    /\ FieldReads("M", SubSeq(d, hour2 + 1, min2 - 1))
                    /\ min2 <= Len(d) /\ d[min2] = ":"
                    /\ FieldReads("S", SubSeq(d, min2 + 1, sec2 - 1))
                    /\ sec2 = Len(d) + 1
                Built(f) ==
                    [ok |-> /\ f.year >= 1
                            /\ f.day >= 1 /\ f.day <= DaysInMonth(f.year, f.month)
                            /\ f.hour <= 23 /\ f.minute <= 59 /\ f.second <= 59,
                     year |-> f.year, month |-> f.month, day |-> f.day,
                     hour |-> f.hour, minute |-> f.minute, second |-> f.second]
            IN  IF ~matches
                THEN [ok |-> FALSE, year |-> 0, month |-> 0, day |-> 0,
                      hour |-> 0, minute |-> 0, second |-> 0]
                ELSE Built([year |-> StrToInt(SubSeq(d, year1, year1 + 3)),
                            month |-> CHOOSE k \in 1..12 :
                                         MonthNames[k] = Lower(SubSeq(d, mon1, mon1 + 2)),
                            day |-> StrToInt(SubSeq(d, day1, day2 - 1)),
                            hour |-> StrToInt(SubSeq(d, hour1, hour2 - 1)),
                            minute |-> StrToInt(SubSeq(d, hour2 + 1, min2 - 1)),
                            second |-> StrToInt(SubSeq(d, min2 + 1, sec2 - 1))])
    IN  ReadAt(DatePlaces(d))

\* whether datetime.strptime(input_date, "%a, %d %b %Y %H:%M:%S") succeeds
DateParses(d) == ParseDate(d).ok

\* "%02d" % n
TwoDigits(n) == (IF n < 10 THEN <<"0">> ELSE <<>>) \o IntToStr(n)

\* the result of strftime("%Y-%m-%dT%H:%M:%S+00:00") for a date that parses;
\* the C library's %Y writes the year without leading zeros
_convert_date_format(d) ==
    LET strftime(f) ==
            IntToStr(f.year) \o <<"-">> \o TwoDigits(f.month) \o <<"-">>
                \o TwoDigits(f.day) \o <<"T">> \o TwoDigits(f.hour) \o <<":">>
                \o TwoDigits(f.minute) \o <<":">> \o TwoDigits(f.second)
                \o <<"+", "0", "0", ":", "0", "0">>
    IN  strftime(ParseDate(d))

\* the loop 'for t in UNLISTED_TAGS' over the first n unlisted tags
RECURSIVE UnlistedLoop(_, _, _)
UnlistedLoop(template, tags, n) ==
    IF n = 0 THEN template
    ELSE Replace(UnlistedLoop(template, tags, n - 1), <<"{", "{", "u", "n", "l", "i", "s", "t", "e", "d", "}", "}">>,
                 IF UNLISTED_TAGS[n] \in Range(tags)
                 THEN <<"t", "r", "u", "e">>
                 ELSE <<"f", "a", "l", "s", "e">>)

\* the tags after every tags.remove(t) for t in IGNORED_TAGS
WithoutIgnoredTagsMut(tags) ==
    LET hits == {k \in 1..Len(tags) : tags[k] \in Range(IGNORED_TAGS)}
        first == CHOOSE k \in hits : \A j \in hits : k <= j
    IN  IF hits = {} THEN tags
        ELSE SubSeq(tags, 1, first - 1) \o SubSeq(tags, first + 1, Len(tags))
WithoutIgnoredTags(tags) == SelectSeq(tags, LAMBDA t : t \notin Range(IGNORED_TAGS))

\* "\n".join(f"  - {tag}" for tag in tags)
RECURSIVE JoinExtraTags(_)
JoinExtraTags(tags) ==
    IF tags = <<>> THEN <<>>
    ELSE <<" ", " ", "-", " ">> \o Head(tags)
            \o (IF Len(tags) > 1 THEN <<"\n">> ELSE <<>>) \o JoinExtraTags(Tail(tags))

\* the text that replaces "{{tag}}"
TagText(tags) ==
    IF Len(tags) = 0 THEN <<"U", "n", "c", "a", "t", "e", "g", "o", "r", "i", "z", "e", "d">>
    ELSE IF Len(tags) = 1 THEN tags[1]
         ELSE tags[1] \o <<"\n">> \o JoinExtraTags(Tail(tags))

\* re.sub(find, replace, title, flags=re.IGNORECASE) at line 266: st = "raise"
\* when the find is no pattern or the replace no template (re.error), st =
\* "ok" with the string, and st = "beyond" for what the model of the re
\* module does not cover
ReSubIgnoreCase(find, replace, title) ==
    ReSubWith(ReIgnoreCase(ReParse(find)), replace, title)

\* an argument of a call: a value, or None
Some(v) == [set |-> TRUE, value |-> v]
None == [set |-> FALSE, value |-> <<>>]

\* no call of _create_ssg_header is under way, and none has printed
SsgIdle ==
    [pc |-> "idle", title |-> None, subtitle |-> None, author |-> None,
     date |-> None, tags |-> None, header |-> <<>>, printed |-> 0]

\* where the try block of _create_ssg_header stands: st = "ok" with the
\* template so far, or st = "raise" once a statement raised, the template as it
\* was at that statement: the except block prints and the function returns it
Rendered(template) == [st |-> "ok", t |-> template]
RaisedMut(template) == [st |-> "raise", t |-> Template]
Raised(template) == [st |-> "raise", t |-> template]

\* 'template = template.replace(placeholder, v)' after the statements that
\* gave `prev`: str.replace raises TypeError when v is None
ReplaceField(prev, placeholder, v) ==
    IF prev.st # "ok" THEN prev
    ELSE IF ~v.set THEN Raised(prev.t)
    ELSE Rendered(Replace(prev.t, placeholder, v.value))

\* 'template = template.replace("{{summary}}", summary_string)' and the
\* break, `r` being the outcome of re.sub
SummarySet(template, r) ==
    IF r.st = "ok"
    THEN Rendered(Replace(template, <<"{", "{", "s", "u", "m", "m", "a", "r", "y", "}", "}">>, r.s))
    ELSE IF r.st = "raise" THEN Raised(template)
         ELSE [st |-> r.st, t |-> template]

\* the loop 'for sub in TITLE_TO_SUMMARY_SUBSTITUTIONS' from item k of the
\* list `subs` on, with its break: 'find, replace = sub' raises ValueError for
\* a tuple that is no pair
RECURSIVE SummaryLoop(_, _, _, _, _)
SummaryLoopMut(subs, template, title, tags, k) ==
    IF k > Len(subs) THEN Rendered(template)
    ELSE IF Len(subs[k]) # 2 THEN Raised(template)
    ELSE IF SummaryLoop(subs, template, title, tags, k + 1) # Rendered(template)
         THEN SummaryLoop(subs, template, title, tags, k + 1)
         ELSE IF subs[k][1] \in Range(tags)
              THEN SummarySet(template, ReSubIgnoreCase(subs[k][1], subs[k][2], title))
              ELSE Rendered(template)
SummaryLoop(subs, template, title, tags, k) ==
    IF k > Len(subs) THEN Rendered(template)
    ELSE IF Len(subs[k]) # 2 THEN Raised(template)
    ELSE IF subs[k][1] \in Range(tags)
         THEN SummarySet(template, ReSubIgnoreCase(subs[k][1], subs[k][2], title))
         ELSE SummaryLoop(subs, template, title, tags, k + 1)

\* the statements of the try block from the loop over UNLISTED_TAGS on, `prev`
\* being where the block stands before them and `tags` the tag list: 't in
\* tags' raises TypeError when tags is None
HeaderTags(subs, prev, title, tags) ==
    IF prev.st # "ok" THEN prev
    ELSE IF ~tags.set THEN Raised(prev.t)
    ELSE LET kept == WithoutIgnoredTags(tags.value)
             t7 == Replace(UnlistedLoop(prev.t, tags.value, Len(UNLISTED_TAGS)),
                           <<"{", "{", "t", "a", "g", "}", "}">>, TagText(kept))
             t8 == SummaryLoop(subs, t7, title.value, kept, 1)
         IN  IF t8.st # "ok" THEN t8
             ELSE Rendered(Replace(t8.t, <<"{", "{", "s", "u", "m", "m", "a", "r", "y", "}", "}">>, <<>>))

\* the try block of _create_ssg_header, `subs` being the list
\* TITLE_TO_SUMMARY_SUBSTITUTIONS and every argument a value or None
HeaderTry(subs, title, subtitle, author, date, tags) ==
    LET t1 == ReplaceField(Rendered(Template), <<"{", "{", "t", "i", "t", "l", "e", "}", "}">>, title)
        t2 == ReplaceField(t1, <<"{", "{", "s", "u", "b", "t", "i", "t", "l", "e", "}", "}">>, subtitle)
        t3 == ReplaceField(t2, <<"{", "{", "a", "u", "t", "h", "o", "r", "}", "}">>, author)
        t4 == ReplaceField(t3, <<"{", "{", "d", "a", "t", "e", "}", "}">>, date)
        t5 == ReplaceField(t4, <<"{", "{", "s", "l", "u", "g", "}", "}">>,
                           Some(_convert_title_to_slug(title.value)))
    IN  HeaderTags(subs, t5, title, tags)

\* _create_ssg_header for the list `subs`: 'return [x for x in
\* template.split("\n")]' in header, whether the try block raised or not;
\* st = "beyond" and no header when the call of re.sub at line 266 is one
\* that the model of the re module does not cover
CreateHeaderWith(subs, title, subtitle, author, date, tags) ==
    LET done == HeaderTry(subs, title, subtitle, author, date, tags)
    IN  IF done.st \in {"ok", "raise"}
        THEN [st |-> "ok", header |-> SplitOn(done.t, "\n")]
        ELSE [st |-> done.st, header |-> <<>>]

_create_ssg_header(title, subtitle, author, date, tags) ==
    CreateHeaderWith(TitleSubstitutions(env.TITLE_SUBSTITUTIONS),
                     Some(title), Some(subtitle), Some(author), Some(date), Some(tags))

\* each line + "\n"
_prepend_ssg_header(new_header, note) ==
    [k \in 1..Len(new_header \o note) |-> Append((new_header \o note)[k], "\n")]

\* how many times _create_ssg_header printed "Field missing when templating SSG
\* header", `header` being where its try block ended
PrintedBy(header) == IF header.st = "raise" THEN 1 ELSE 0

\* _process_note from its call of _create_ssg_header on, `header` being where
\* the try block of that call ended: "index_error" when no line is left after
\* the header lines, otherwise the name and the text of the file to write
ProcessedWith(info, body, header) ==
    IF header.st \notin {"ok", "raise"}
    THEN [raised |-> header.st, printed |-> 0, filename |-> <<>>, markdown |-> <<>>]
    ELSE IF body = <<>>
         THEN [raised |-> "index_error", printed |-> PrintedBy(header),
               filename |-> <<>>, markdown |-> <<>>]
         ELSE [raised |-> "none", printed |-> PrintedBy(header),
               filename |-> _convert_title_to_filename(info.title),
               markdown |->
                   _prepend_ssg_header(SplitOn(header.t, "\n"), _delete_existing_title(body))]

\* what _process_note does before it writes: "value_error" when the date does
\* not parse, otherwise as ProcessedWith; the arguments of _create_ssg_header
\* are strings and a list whatever the note holds
ProcessNoteWith(subs, note) ==
    LET info == _gather_header_info(note)
    IN  IF ~DateParses(info.date)
        THEN [raised |-> "value_error", printed |-> 0, filename |-> <<>>, markdown |-> <<>>]
        ELSE ProcessedWith(info, _delete_existing_header(note),
                 HeaderTry(subs, Some(info.title), Some(<<>>), Some(AUTHOR),
                           Some(_convert_date_format(info.date)), Some(info.tags)))

_process_note(note) == ProcessNoteWith(TitleSubstitutions(env.TITLE_SUBSTITUTIONS), note)

(***************************************************************************)
(* _split_notes                                                            *)
(***************************************************************************)

\* the rule token that ends a delimiter line: "-+"
RuleToken == <<"-", "+">>

\* line.endswith("-+")
IsDelimiter(line) == EndsWith(line, RuleToken)

\* the locals of _split_notes before its loop
SplitStart ==
    [output_notes |-> <<>>, note |-> <<>>,
     header_start_found |-> FALSE, header_end_found |-> FALSE]

\* the branch of the loop body that cuts a new note
CutsNewNoteMut(st, line) == st.header_start_found /\ st.header_end_found
CutsNewNote(st, line) ==
    IsDelimiter(line) /\ st.header_start_found /\ st.header_end_found

\* one iteration of the loop of _split_notes over `line`
SplitStepResetMut(st, line) ==
    IF CutsNewNote(st, line)
    THEN [output_notes |-> Append(st.output_notes, st.note),
          note |-> <<line>>,
          header_start_found |-> FALSE,
          header_end_found |-> FALSE]
    ELSE [output_notes |-> st.output_notes,
          note |-> Append(st.note, line),
          header_start_found |-> st.header_start_found \/ IsDelimiter(line),
          header_end_found |->
              st.header_end_found \/ (IsDelimiter(line) /\ st.header_start_found)]
SplitStepMut(st, line) ==
    IF CutsNewNote(st, line)
    THEN [output_notes |-> Append(st.output_notes, st.note),
          note |-> <<>>,
          header_start_found |-> TRUE,
          header_end_found |-> FALSE]
    ELSE [output_notes |-> st.output_notes,
          note |-> Append(st.note, line),
          header_start_found |-> st.header_start_found \/ IsDelimiter(line),
          header_end_found |->
              st.header_end_found \/ (IsDelimiter(line) /\ st.header_start_found)]
SplitStep(st, line) ==
    IF CutsNewNote(st, line)
    THEN [output_notes |-> Append(st.output_notes, st.note),
          note |-> <<line>>,
          header_start_found |-> TRUE,
          header_end_found |-> FALSE]
    ELSE [output_notes |-> st.output_notes,
          note |-> Append(st.note, line),
          header_start_found |-> st.header_start_found \/ IsDelimiter(line),
          header_end_found |->
              st.header_end_found \/ (IsDelimiter(line) /\ st.header_start_found)]

\* the unconditional flush of the last note after the loop
SplitFlush(st) == Append(st.output_notes, st.note)

\* the loop of _split_notes over the first n lines
RECURSIVE SplitLoop(_, _)
SplitLoop(lines, n) ==
    IF n = 0 THEN SplitStart ELSE SplitStep(SplitLoop(lines, n - 1), lines[n])

\* _split_notes(input_lines)
_split_notes(input_lines) == SplitFlush(SplitLoop(input_lines, Len(input_lines)))

(***************************************************************************)
(* _exponential_backoff_delay                                              *)
(*                                                                         *)
(* Delays are counted in ticks of 1/80 s (0.1 s is 8 ticks), and a delay   *)
(* that the function returns is given by its whole ticks, the fraction of  *)
(* a tick dropped.  random.random() returns any float r of [0, 1), which   *)
(* no finite set of draws covers; the draw is therefore given by what it   *)
(* does: delay + delay * 0.25 * (2 * r - 1) takes every value from         *)
(* 0.75 * delay (r = 0) up to 1.25 * delay, which the rounding of the sum  *)
(* reaches for the largest r, so the whole ticks of the jittered delay are *)
(* every number from those of 0.75 * delay to those of 1.25 * delay.       *)
(***************************************************************************)

Seconds(n) == n * 80

\* the floor of max(0.1, delay)
MinDelay == Seconds(1) \div 10

Min(a, b) == IF a <= b THEN a ELSE b
Max(a, b) == IF a >= b THEN a ELSE b

\* delay = base_delay * (2**attempt); delay = min(delay, max_delay)
CappedDelay(attempt, base_delay, max_delay) ==
    Min(base_delay * (2 ^ attempt), max_delay)

\* delay += delay * 0.25 * (2 * random.random() - 1): the values the sum can
\* have, in whole ticks
JitteredDelaysWideMut(delay) == (delay \div 2) .. ((3 * delay) \div 2)
JitteredDelays(delay) == ((3 * delay) \div 4) .. ((5 * delay) \div 4)

\* the delays that one call can return, in whole ticks
_exponential_backoff_delay(attempt, base_delay, max_delay) ==
    {Max(MinDelay, delay) :
        delay \in JitteredDelays(CappedDelay(attempt, base_delay, max_delay))}

(***************************************************************************)
(* _trash_sncli_log and one validation pass of                             *)
(* _validate_dumped_notes_have_tag_to_download_with_backoff                *)
(***************************************************************************)

log_entries_to_remove ==
    << <<"s", "n", "c", "l", "i", " ", "d", "a", "t", "a", "b", "a", "s", "e", " ", "d", "o", "e", "s", "n", "'", "t", " ", "e", "x", "i", "s", "t">>,
       <<"S", "t", "a", "r", "t", "i", "n", "g", " ", "f", "u", "l", "l", " ", "s", "y", "n", "c">>,
       <<"S", "y", "n", "c", "e", "d", " ", "n", "e", "w", " ", "n", "o", "t", "e", " ", "f", "r", "o", "m", " ", "s", "e", "r", "v", "e", "r">>,
       <<"S", "a", "v", "e", "d", " ", "n", "o", "t", "e", " ", "t", "o", " ", "d", "i", "s", "k">>,
       <<"F", "u", "l", "l", " ", "s", "y", "n", "c", " ", "c", "o", "m", "p", "l", "e", "t", "e", "d">> >>

\* any(x in s for x in log_entries_to_remove)
IsLogEntry(s) ==
    \E i \in 1..Len(log_entries_to_remove) : Contains(s, log_entries_to_remove[i])

\* the lines of the text that are kept ('"" in s' holds of every string)
_trash_sncli_log(input_lines) == SelectSeq(input_lines, LAMBDA s : ~IsLogEntry(s))

\* '"|" in line and "Tags:" in line'
IsTagsLine(line) ==
    /\ Contains(line, <<"|">>)
    /\ Contains(line, <<"T", "a", "g", "s", ":">>)

\* the scan of the lines from index k on: the loop stops at the first tags
\* line without the tag
RECURSIVE ScanTagsLines(_, _, _, _)
ScanTagsLines(lines, k, tag_to_download, found_tags_lines) ==
    IF k > Len(lines)
    THEN [found_tags_lines |-> found_tags_lines, validation_failed |-> FALSE]
    ELSE IF IsTagsLine(lines[k])
         THEN IF ~Contains(lines[k], tag_to_download)
              THEN [found_tags_lines |-> found_tags_lines + 1,
                    validation_failed |-> TRUE]
              ELSE ScanTagsLines(lines, k + 1, tag_to_download, found_tags_lines + 1)
         ELSE ScanTagsLines(lines, k + 1, tag_to_download, found_tags_lines)

\* the verdict of one pass over the text read from the input file
ValidationFailedMut(input_content, tag_to_download) ==
    ScanTagsLines(_trash_sncli_log(input_content), 1, tag_to_download, 0)
        .validation_failed
ValidationFailed(input_content, tag_to_download) ==
    LET scan == ScanTagsLines(_trash_sncli_log(input_content), 1, tag_to_download, 0)
    IN  scan.validation_failed \/ scan.found_tags_lines < 1

(***************************************************************************)
(* The splitter run line by line over every bounded input (SpecSplit).     *)
(***************************************************************************)

MaxSplitLines == 5

\* "+--+", "| Title: a |", "x", "x-+"
RuleLine == <<"+", "-", "-", "+">>
TitleLineA == <<"|", " ", "T", "i", "t", "l", "e", ":", " ", "a", " ", "|">>
BodyLineX == <<"x">>
OddRuleLine == <<"x", "-", "+">>

SplitVocab == {RuleLine, TitleLineA, BodyLineX, OddRuleLine}

SeqsUpTo(S, n) == UNION {[1..k -> S] : k \in 0..n}

\* the input file does not exist
NoFile == [exists |-> FALSE, content |-> <<>>, writer |-> "none", rejected |-> FALSE]

FetchIdle ==
    [caller |-> "none", attempt |-> 0, invocations |-> 0, failures |-> 0,
     sleeps |-> <<>>, last |-> "none", result |-> "none"]

ValIdle ==
    [attempt |-> 0, passes |-> 0, rejections |-> 0, refetches |-> 0,
     sleeps |-> <<>>, verdict |-> "none", checked |-> NoFile, result |-> "none"]

ProcIdle ==
    [notes |-> <<>>, next |-> 1, notes_input_counter |-> 0,
     notes_output_counter |-> 0, output_dir_num_files_start |-> 0,
     output_dir_num_files_end |-> 0, touched |-> {}, written |-> 0]

\* an output directory without files
EmptyDir == [f \in {} |-> <<>>]

\* what the run has done outside: the calls of _send_gotify_notification, the
\* calls of subprocess.run, the requests of requests.post, and whether
\* requests.post raised (nothing catches its error: the traceback is printed
\* and the status of the process is 1)
OutIdle == [notifications |-> 0, invocations |-> 0, posts |-> 0, uncaught |-> FALSE]

RunIdle ==
    /\ ssg = SsgIdle
    /\ env = [MAX_RETRIES |-> 0, DEBUG |-> FALSE, TITLE_SUBSTITUTIONS |-> TITLE_SUBSTITUTIONS]
    /\ pc = "idle"
    /\ file = NoFile
    /\ fetch = FetchIdle
    /\ val = ValIdle
    /\ out = OutIdle
    /\ proc = ProcIdle
    /\ outdir = EmptyDir

SplitIdle ==
    [input_lines |-> <<>>, pos |-> 0, st |-> SplitStart, pc |-> "idle",
     notes |-> <<>>]

BkIdle ==
    [attempt |-> 0, base_delay |-> 0, max_delay |-> 0, pc |-> "idle",
     delay |-> 0]

\* the locals of _gather_header_info before its loop
GatherStart == [title |-> <<>>, date |-> <<>>, tags |-> <<>>]

GatherIdle == [note |-> <<>>, pos |-> 0, info |-> GatherStart, pc |-> "idle"]

\* os.environ.get(name) of a variable that is not set: None
Unset == [set |-> FALSE, value |-> <<>>]

NotifyIdle ==
    [GOTIFY_URL |-> Unset, GOTIFY_TOKEN |-> Unset, pc |-> "idle", calls |-> 0,
     args |-> [title |-> <<>>, text |-> <<>>], posts |-> <<>>, printed |-> 0]

SplitInit ==
    /\ split \in {[input_lines |-> inp, pos |-> 0, st |-> SplitStart,
                    pc |-> "loop", notes |-> <<>>] :
                       inp \in SeqsUpTo(SplitVocab, MaxSplitLines)}
    /\ bk = BkIdle
    /\ gather = GatherIdle
    /\ notify = NotifyIdle
    /\ ssg = SsgIdle
    /\ RunIdle

\* one loop iteration that takes the first branch (a new note is cut)
SplitCut ==
    /\ split.pc = "loop"
    /\ split.pos < Len(split.input_lines)
    /\ CutsNewNote(split.st, split.input_lines[split.pos + 1])
    /\ split' = [split EXCEPT !.pos = @ + 1,
                    !.st = SplitStep(split.st, split.input_lines[split.pos + 1])]
    /\ UNCHANGED <<bk, gather, notify, ssg, runVars>>

\* one loop iteration that takes the else branch (the line joins the note)
SplitKeep ==
    /\ split.pc = "loop"
    /\ split.pos < Len(split.input_lines)
    /\ ~CutsNewNote(split.st, split.input_lines[split.pos + 1])
    /\ split' = [split EXCEPT !.pos = @ + 1,
                    !.st = SplitStep(split.st, split.input_lines[split.pos + 1])]
    /\ UNCHANGED <<bk, gather, notify, ssg, runVars>>

\* input exhausted: the last note is stored and the list returned
SplitReturn ==
    /\ split.pc = "loop"
    /\ split.pos = Len(split.input_lines)
    /\ split' = [split EXCEPT !.pc = "done", !.notes = SplitFlush(split.st)]
    /\ UNCHANGED <<bk, gather, notify, ssg, runVars>>

SplitNext == SplitCut \/ SplitKeep \/ SplitReturn

SpecSplit == SplitInit /\ [][SplitNext]_vars

NumDelimiters(lines) ==
    Cardinality({k \in 1..Len(lines) : EndsWith(lines[k], <<"-", "+">>)})

\* C1: when _split_notes returns, the lines of the returned notes, concatenated
\* in order, are exactly the input lines (nothing dropped, duplicated or
\* reordered), and the step-by-step result is the one _split_notes computes.
C1_SplitRoundTrip ==
    split.pc = "done" =>
        /\ Concat(split.notes) = split.input_lines
        /\ split.notes = _split_notes(split.input_lines)

\* a returned split of an input with two delimiter pairs into several notes
C1_Witness ==
    /\ split.pc = "done"
    /\ NumDelimiters(split.input_lines) >= 4
    /\ Len(split.notes) >= 2
    /\ Concat(split.notes) = split.input_lines

\* C2 as claimed: every returned note begins with a delimiter line.
C2_EveryNoteStartsAtDelimiter ==
    split.pc = "done" =>
        \A k \in 1..Len(split.notes) :
            /\ split.notes[k] # <<>>
            /\ EndsWith(split.notes[k][1], <<"-", "+">>)

\* C2 amended: every returned note after the first begins with a delimiter
\* line; the first note begins with the first input line, which is a
\* delimiter line only if the input begins with one (the first note is empty
\* for an empty input).
C2_LaterNotesStartAtDelimiter ==
    split.pc = "done" =>
        /\ \A k \in 2..Len(split.notes) :
              /\ split.notes[k] # <<>>
              /\ EndsWith(split.notes[k][1], <<"-", "+">>)
        /\ Len(split.notes) >= 1
        /\ IF split.input_lines = <<>>
           THEN split.notes[1] = <<>>
           ELSE /\ split.notes[1] # <<>>
                /\ split.notes[1][1] = split.input_lines[1]

\* a returned split whose first note starts with a body line and whose later
\* notes exist
C2_Witness ==
    /\ split.pc = "done"
    /\ Len(split.notes) >= 2
    /\ split.notes[1] # <<>>
    /\ ~EndsWith(split.notes[1][1], <<"-", "+">>)

(***************************************************************************)
(* The backoff delay computed for every bounded input (SpecBackoff).       *)
(***************************************************************************)

MaxAttempt == 5

\* 0.125 s, 1 s (the default BASE_DELAY) and 2 s
BaseDelays == {Seconds(1) \div 8, Seconds(1), Seconds(2)}

\* 1 s, 10 s (the cap of the repository's test) and 300 s (the default)
MaxDelays == {Seconds(1), Seconds(10), Seconds(300)}

BkInit ==
    /\ bk \in {[attempt |-> a, base_delay |-> b, max_delay |-> m, pc |-> "call",
                 delay |-> 0] :
                    a \in 0..MaxAttempt, b \in BaseDelays, m \in MaxDelays}
    /\ split = SplitIdle
    /\ gather = GatherIdle
    /\ notify = NotifyIdle
    /\ ssg = SsgIdle
    /\ RunIdle

\* the call: one draw of random.random() and the returned delay
BkReturn ==
    /\ bk.pc = "call"
    /\ \E delay \in _exponential_backoff_delay(bk.attempt, bk.base_delay, bk.max_delay) :
          bk' = [bk EXCEPT !.pc = "returned", !.delay = delay]
    /\ UNCHANGED <<split, gather, notify, ssg, runVars>>

BkNext == BkReturn

SpecBackoff == BkInit /\ [][BkNext]_vars

\* C8 as claimed: every returned delay is at least 0.1 s and at most max_delay.
C8_DelayWithinBounds ==
    bk.pc = "returned" =>
        /\ bk.delay >= Seconds(1) \div 10
        /\ bk.delay <= bk.max_delay

\* C30: where the doubled delay of the next attempt is within the cap
\* (base_delay * 2^(attempt + 1) <= max_delay) and the least delay of this
\* attempt is at least the floor (0.75 * base_delay * 2^attempt >= 0.1 s), the
\* delay returned for this attempt, whatever was drawn for it, is less than
\* the delay of the next attempt whatever is drawn for that.
C30_DelayIncreasesBelowCap ==
    (/\ bk.pc = "returned"
     /\ bk.base_delay * (2 ^ (bk.attempt + 1)) <= bk.max_delay
     /\ 3 * bk.base_delay * (2 ^ bk.attempt) >= 4 * MinDelay)
        => \A delay \in _exponential_backoff_delay(bk.attempt + 1, bk.base_delay,
                                                   bk.max_delay) :
              delay > bk.delay

\* attempt 1 of the test's base and cap returned its largest delay, 2.5 s, and
\* the least delay of attempt 2 is 3 s
C30_Witness ==
    /\ bk.pc = "returned"
    /\ bk.attempt = 1
    /\ bk.base_delay = Seconds(1)
    /\ bk.max_delay = Seconds(10)
    /\ bk.delay = Seconds(2) + (Seconds(1) \div 2)
    /\ \A delay \in _exponential_backoff_delay(2, Seconds(1), Seconds(10)) :
          delay >= Seconds(3)
    /\ Seconds(3) \in _exponential_backoff_delay(2, Seconds(1), Seconds(10))

(***************************************************************************)
(* The run: main, _run_sncli_with_backoff and                              *)
(* _validate_dumped_notes_have_tag_to_download_with_backoff (Spec).        *)
(***************************************************************************)

MaxRetries == 2

\* the text of an empty file: "".split("\n")
EmptyText == << <<>> >>

\* the texts the dump tool writes -------------------------------------------

KeyLine(key, value) == <<"|", " ">> \o key \o <<":", " ">> \o value \o <<" ", "|">>

TitleKey == <<"T", "i", "t", "l", "e">>
DateKey == <<"D", "a", "t", "e">>
TagsKey == <<"T", "a", "g", "s">>
MiscTag == <<"m", "i", "s", "c">>

\* "Fri, 01 Sep 2023 02:33:35"
GoodDate == <<"F", "r", "i", ",", " ", "0", "1", " ", "S", "e", "p", " ", "2", "0", "2", "3", " ", "0", "2", ":", "3", "3", ":", "3", "5">>

DatedNoteText(title, date, tags, body) ==
    << RuleLine,
       KeyLine(TitleKey, title),
       KeyLine(DateKey, date),
       KeyLine(TagsKey, tags),
       RuleLine >> \o body

NoteText(title, tags, body) == DatedNoteText(title, GoodDate, tags, body)

\* a log line of the dump tool
LogLine == log_entries_to_remove[5]

\* one note tagged "pub"
DumpOne == <<LogLine>> \o NoteText(<<"a">>, TAG_TO_DOWNLOAD, <<BodyLineX>>) \o EmptyText

\* two notes, the second tagged "misc" only
DumpUntagged ==
    NoteText(<<"a">>, TAG_TO_DOWNLOAD, <<BodyLineX>>)
        \o NoteText(<<"b">>, MiscTag, <<BodyLineX>>) \o EmptyText

\* a note without a Tags line
DumpNoTags ==
    <<LogLine, RuleLine, KeyLine(TitleKey, <<"a">>), RuleLine, BodyLineX>>
        \o EmptyText

\* two notes tagged "pub" whose titles "a" and "A" have the same slug
DumpSameSlug ==
    NoteText(<<"a">>, TAG_TO_DOWNLOAD, <<BodyLineX>>)
        \o NoteText(<<"A">>, TAG_TO_DOWNLOAD, <<BodyLineX, BodyLineX>>) \o EmptyText

\* a container note "c" tagged "pub,c:list" with the entries "x" and "y"
DumpContinuous ==
    NoteText(<<"c">>, TAG_TO_DOWNLOAD \o <<",">> \o CONTINUOUS_NOTE_TAG,
             <<<<"c">>, BodyLineX, <<>>, <<"y">>>>) \o EmptyText

\* a container note "a(b" tagged "pub,c:list" with the entry "x": its title is
\* no regular expression
DumpBadPattern ==
    NoteText(<<"a", "(", "b">>, TAG_TO_DOWNLOAD \o <<",">> \o CONTINUOUS_NOTE_TAG,
             <<<<"c">>, BodyLineX>>) \o EmptyText

\* a note tagged "pub" whose date is "x"
DumpBadDate ==
    DatedNoteText(<<"a">>, <<"x">>, TAG_TO_DOWNLOAD, <<BodyLineX>>) \o EmptyText

\* what an invocation that exits zero may have written
DumpTexts ==
    {DumpOne, DumpUntagged, DumpNoTags, DumpSameSlug, DumpContinuous, DumpBadPattern,
     DumpBadDate}

\* what an invocation that exits non-zero may have written before it failed
PartialTexts == {EmptyText, DumpOne}

\* the outcomes of one attempt of _run_sncli_with_backoff:
\*   zero       the tool exits 0 and the file holds its output
\*   nonzero    CalledProcessError: the file holds what the tool wrote until then
\*   run_error  subprocess.run raises another error: the file was opened for
\*              writing and is empty
\*   open_error open(input_filename, "w") raises: the file is as it was, and
\*              subprocess.run is not called
DumpOutcomes ==
    {[kind |-> "zero", text |-> t] : t \in DumpTexts}
        \cup {[kind |-> "nonzero", text |-> t] : t \in PartialTexts}
        \cup {[kind |-> "run_error", text |-> EmptyText],
              [kind |-> "open_error", text |-> EmptyText]}

FileAfter(outcome) ==
    IF outcome.kind = "open_error"
    THEN file
    ELSE [exists |-> TRUE, content |-> outcome.text, writer |-> outcome.kind,
          rejected |-> FALSE]

\* the output directory: file name -> text, the text as the list of its lines,
\* each with its "\n" ---------------------------------------------------------

\* fnmatch.filter(names, "*.*"): the names with a "."
MatchesPattern(name) == Contains(name, <<".">>)

\* len(fnmatch.filter(os.listdir(OUTPUT_DIR), "*.*"))
NumFiles(dir) == Cardinality({f \in DOMAIN dir : MatchesPattern(f)})

DirWith(dir, name, text) ==
    [f \in DOMAIN dir \cup {name} |-> IF f = name THEN text ELSE dir[f]]

DirWithout(dir, name) == [f \in DOMAIN dir \ {name} |-> dir[f]]

OldText == <<<<"o", "l", "d", "\n">>>>

\* "a.md" with an older text, and "keep", a name without a "."
DirStale ==
    DirWith(DirWith(EmptyDir, <<"a", ".", "m", "d">>, OldText),
            <<"k", "e", "e", "p">>, OldText)

\* "a.md" as a previous run over DumpOne left it
DirSame ==
    LET done == ProcessNoteWith(TITLE_TO_SUMMARY_SUBSTITUTIONS, _split_notes(_trash_sncli_log(DumpOne))[1])
    IN  DirWith(EmptyDir, done.filename, done.markdown)

InitialDirs == {EmptyDir, DirStale, DirSame}

\* the state ------------------------------------------------------------------

Init ==
    /\ split = SplitIdle
    /\ bk = BkIdle
    /\ gather = GatherIdle
    /\ notify = NotifyIdle
    /\ ssg = SsgIdle
    /\ env \in [MAX_RETRIES : 0..MaxRetries, DEBUG : BOOLEAN,
               TITLE_SUBSTITUTIONS : {TITLE_SUBSTITUTIONS}]
    /\ pc = "start"
    /\ file = NoFile
    /\ fetch = FetchIdle
    /\ val = ValIdle
    /\ out = OutIdle
    /\ proc = ProcIdle
    /\ outdir \in InitialDirs

\* 'attempt < MAX_RETRIES - 1' in _run_sncli_with_backoff: another attempt
\* follows this one
FetchMoreAttemptsMut(attempt) == attempt < env.MAX_RETRIES
FetchMoreAttempts(attempt) == attempt < env.MAX_RETRIES - 1

\* 'attempt < MAX_RETRIES - 1' in the validation loop: another pass follows
ValMoreAttemptsMut(attempt) == attempt < env.MAX_RETRIES
ValMoreAttempts(attempt) == attempt < env.MAX_RETRIES - 1

\* the ways a call of _send_gotify_notification ends, GOTIFY_URL and
\* GOTIFY_TOKEN being read from the environment at the call:
\*   unset     one of them is not set or empty: nothing is sent, the call returns
\*   answered  both are set and requests.post returns: the call returns
\*   raised    both are set and requests.post raises: the error leaves the call
NotifyOutcomes == {"unset", "answered", "raised"}

\* _send_gotify_notification is called once and ends as `answer` tells
Notified(answer) ==
    [out EXCEPT !.notifications = @ + 1,
                !.posts = IF answer = "unset" THEN @ ELSE @ + 1,
                !.uncaught = (answer = "raised")]

\* 1 when an attempt of that kind has called subprocess.run, 0 when open()
\* raised before it (or there was no attempt)
Invoked(kind) == IF kind \in {"none", "open_error"} THEN 0 ELSE 1

\* main: the first call of _run_sncli_with_backoff
MainStart ==
    /\ pc = "start"
    /\ proc' = [proc EXCEPT !.output_dir_num_files_start = NumFiles(outdir)]
    /\ fetch' = [FetchIdle EXCEPT !.caller = "main"]
    /\ pc' = "fetch"
    /\ UNCHANGED <<split, bk, gather, notify, ssg, outdir, env, file, val, out>>

\* _run_sncli_with_backoff returns `result` to its caller: main goes on to the
\* validation or exits; the validation loop goes on to its next iteration
\* whatever the result ('continue', or the end of the loop body)
FetchReturnsMut(result, kind) ==
    /\ fetch' = [fetch EXCEPT !.result = result, !.last = kind,
                    !.invocations = @ + Invoked(kind),
                    !.failures = IF kind \in {"none", "zero"} THEN @ ELSE @ + 1]
    /\ IF fetch.caller = "main"
       THEN /\ pc' = "validate"
            /\ val' = ValIdle
       ELSE /\ pc' = "validate"
            /\ val' = [val EXCEPT !.attempt = @ + 1]
FetchReturns(result, kind) ==
    /\ fetch' = [fetch EXCEPT !.result = result, !.last = kind,
                    !.invocations = @ + Invoked(kind),
                    !.failures = IF kind \in {"none", "zero"} THEN @ ELSE @ + 1]
    /\ IF fetch.caller = "main"
       THEN IF result = "true"
            THEN /\ pc' = "validate"
                 /\ val' = ValIdle
            ELSE /\ pc' = "exit1"
                 /\ val' = val
       ELSE /\ pc' = "validate"
            /\ val' = [val EXCEPT !.attempt = @ + 1]

\* an attempt whose subprocess exits zero: 'return True'
FetchAttemptSucceeds ==
    /\ pc = "fetch"
    /\ fetch.attempt < env.MAX_RETRIES
    /\ \E o \in DumpOutcomes :
          /\ o.kind = "zero"
          /\ file' = FileAfter(o)
          /\ FetchReturns("true", o.kind)
    /\ out' = [out EXCEPT !.invocations = @ + 1]
    /\ UNCHANGED <<split, bk, gather, notify, ssg, proc, outdir, env>>

\* an attempt that raises, with attempts left: sleep the backoff delay of this
\* attempt and loop
FetchAttemptFailsRetry ==
    /\ pc = "fetch"
    /\ fetch.attempt < env.MAX_RETRIES
    /\ FetchMoreAttempts(fetch.attempt)
    /\ \E o \in DumpOutcomes :
          /\ o.kind # "zero"
          /\ file' = FileAfter(o)
          /\ fetch' = [fetch EXCEPT !.attempt = @ + 1,
                          !.invocations = @ + Invoked(o.kind),
                          !.failures = @ + 1, !.last = o.kind,
                          !.sleeps = Append(@, fetch.attempt)]
          /\ out' = [out EXCEPT !.invocations = @ + Invoked(o.kind)]
    /\ UNCHANGED <<split, bk, gather, notify, ssg, proc, outdir, env, pc, val>>

\* the last attempt raises: 'return False', and main notifies and exits; the
\* process ends with status 1 by sys.exit(1), or by the error of requests.post
\* when the notification raised
FetchAttemptFailsLast ==
    /\ pc = "fetch"
    /\ fetch.attempt < env.MAX_RETRIES
    /\ ~FetchMoreAttempts(fetch.attempt)
    /\ \E o \in DumpOutcomes, answer \in NotifyOutcomes :
          /\ o.kind # "zero"
          /\ file' = FileAfter(o)
          /\ FetchReturns("false", o.kind)
          /\ out' = IF fetch.caller = "main"
                    THEN [Notified(answer) EXCEPT !.invocations = @ + Invoked(o.kind)]
                    ELSE [out EXCEPT !.invocations = @ + Invoked(o.kind)]
    /\ UNCHANGED <<split, bk, gather, notify, ssg, proc, outdir, env>>

\* the loop of _run_sncli_with_backoff is over (MAX_RETRIES is 0): 'return False'
FetchLoopEnds ==
    /\ pc = "fetch"
    /\ ~(fetch.attempt < env.MAX_RETRIES)
    /\ FetchReturns("false", "none")
    /\ \E answer \in NotifyOutcomes :
          out' = IF fetch.caller = "main" THEN Notified(answer) ELSE out
    /\ UNCHANGED <<split, bk, gather, notify, ssg, proc, outdir, env, file>>

\* a validation pass that reads the file and finds every tags line tagged:
\* 'return True'
ValidatePassOk ==
    /\ pc = "validate"
    /\ val.attempt < env.MAX_RETRIES
    /\ file.exists
    /\ ~ValidationFailed(file.content, TAG_TO_DOWNLOAD)
    /\ val' = [val EXCEPT !.passes = @ + 1, !.verdict = "ok", !.checked = file,
                  !.result = "true"]
    /\ pc' = "process"
    /\ UNCHANGED <<split, bk, gather, notify, ssg, proc, outdir, env, file, fetch, out>>

\* a validation pass that ends with validation_failed
ValidatePassFails ==
    /\ pc = "validate"
    /\ val.attempt < env.MAX_RETRIES
    /\ file.exists
    /\ ValidationFailed(file.content, TAG_TO_DOWNLOAD)
    /\ val' = [val EXCEPT !.passes = @ + 1, !.rejections = @ + 1,
                  !.verdict = "failed", !.checked = file]
    /\ file' = [file EXCEPT !.rejected = TRUE]
    /\ pc' = "val_failed"
    /\ UNCHANGED <<split, bk, gather, notify, ssg, proc, outdir, env, fetch, out>>

\* a validation pass whose open raises FileNotFoundError
ValidateFileMissing ==
    /\ pc = "validate"
    /\ val.attempt < env.MAX_RETRIES
    /\ ~file.exists
    /\ val' = [val EXCEPT !.passes = @ + 1, !.rejections = @ + 1,
                  !.verdict = "missing", !.checked = NoFile]
    /\ pc' = "val_failed"
    /\ UNCHANGED <<split, bk, gather, notify, ssg, proc, outdir, env, file, fetch, out>>

\* a validation pass that raises another exception (the file cannot be read)
ValidateReadError ==
    /\ pc = "validate"
    /\ val.attempt < env.MAX_RETRIES
    /\ file.exists
    /\ val' = [val EXCEPT !.passes = @ + 1, !.verdict = "error", !.checked = NoFile]
    /\ pc' = "val_failed"
    /\ UNCHANGED <<split, bk, gather, notify, ssg, proc, outdir, env, file, fetch, out>>

\* after a failed pass with passes left: time.sleep(delay); then the re-dump,
\* except after an unexpected exception, where the loop goes straight on
ValidateSleepMut ==
    /\ pc = "val_failed"
    /\ ValMoreAttempts(val.attempt)
    /\ val' = [val EXCEPT !.sleeps = Append(@, val.attempt)]
    /\ pc' = "val_refetch"
    /\ UNCHANGED <<split, bk, gather, notify, ssg, proc, outdir, env, file, fetch, out>>
ValidateSleep ==
    /\ pc = "val_failed"
    /\ ValMoreAttempts(val.attempt)
    /\ IF val.verdict = "error"
       THEN /\ val' = [val EXCEPT !.sleeps = Append(@, val.attempt),
                                  !.attempt = @ + 1]
            /\ pc' = "validate"
       ELSE /\ val' = [val EXCEPT !.sleeps = Append(@, val.attempt)]
            /\ pc' = "val_refetch"
    /\ UNCHANGED <<split, bk, gather, notify, ssg, proc, outdir, env, file, fetch, out>>

\* the re-dump: _run_sncli_with_backoff is called from the validation loop
ValidateRefetch ==
    /\ pc = "val_refetch"
    /\ fetch' = [FetchIdle EXCEPT !.caller = "validate"]
    /\ val' = [val EXCEPT !.refetches = @ + 1]
    /\ pc' = "fetch"
    /\ UNCHANGED <<split, bk, gather, notify, ssg, proc, outdir, env, file, out>>

\* the last pass failed: 'return False', and main notifies and exits; the
\* process ends with status 1 by sys.exit(1), or by the error of requests.post
\* when the notification raised
ValidateGiveUp ==
    /\ pc = "val_failed"
    /\ ~ValMoreAttempts(val.attempt)
    /\ val' = [val EXCEPT !.result = "false"]
    /\ \E answer \in NotifyOutcomes : out' = Notified(answer)
    /\ pc' = "exit1"
    /\ UNCHANGED <<split, bk, gather, notify, ssg, proc, outdir, env, file, fetch>>

\* the environment: the input file is removed between the dump and its reading
InputFileVanishes ==
    /\ pc = "validate"
    /\ file.exists
    /\ file' = NoFile
    /\ UNCHANGED <<split, bk, gather, notify, ssg, proc, outdir, env, pc, fetch, val, out>>

\* main: read the validated file, drop the log lines, split
MainReadsNotes ==
    /\ pc = "process"
    /\ file.exists
    /\ LET notes == _split_notes(_trash_sncli_log(file.content))
       IN  proc' = [proc EXCEPT !.notes = notes, !.next = 1,
                       !.notes_input_counter = Len(notes),
                       !.notes_output_counter = 0]
    /\ pc' = "loop"
    /\ UNCHANGED <<split, bk, gather, notify, ssg, outdir, env, file, fetch, val, out>>

\* the note the loop of main is at
CurrentNote == proc.notes[proc.next]

\* 'x in xs' for a list xs
InList(x, xs) == \E k \in 1..Len(xs) : xs[k] = x

\* 'os.environ.get("CONTINUOUS_NOTE_TAG") in tags'
IsContainer(note) == InList(CONTINUOUS_NOTE_TAG, _gather_header_info(note).tags)

\* 'notes.extend(split_notes)' and the counter of main
ExtendedMut(split_notes) ==
    [proc EXCEPT !.notes = @ \o split_notes,
                 !.notes_input_counter = @ + Len(split_notes),
                 !.next = @ + 1]
Extended(split_notes) ==
    [proc EXCEPT !.notes = @ \o split_notes,
                 !.notes_input_counter = @ + Len(split_notes) - 1,
                 !.next = @ + 1]

\* the two ends of an iteration over a container note, `parts` being what
\* _split_continuous_note gave
ContainerExpanded(parts) ==
    /\ parts.st = "ok"
    /\ proc' = Extended(parts.notes)
    /\ UNCHANGED pc

ContainerRaised(parts) ==
    /\ parts.st = "raise"
    /\ pc' = "crashed"
    /\ UNCHANGED proc

\* an iteration over a container note: its parts are appended to the list the
\* loop walks, and the container itself is not processed
LoopExpandsContainer ==
    /\ pc = "loop"
    /\ proc.next <= Len(proc.notes)
    /\ IsContainer(CurrentNote)
    /\ ContainerExpanded(_split_continuous_note(CurrentNote))
    /\ UNCHANGED <<split, bk, gather, notify, ssg, outdir, env, file, fetch, val, out>>

\* an iteration over a container note whose title is no regular expression,
\* or no replacement: re.sub raises re.error in _adjust_note_header_title,
\* and nothing catches it
LoopExpandRaises ==
    /\ pc = "loop"
    /\ proc.next <= Len(proc.notes)
    /\ IsContainer(CurrentNote)
    /\ ContainerRaised(_split_continuous_note(CurrentNote))
    /\ UNCHANGED <<split, bk, gather, notify, ssg, outdir, env, file, fetch, val, out>>

\* file.read() of a file opened in text mode without a newline argument, as
\* open(file_path) at line 313 opens it: the characters `s` of the file with
\* every "\r\n" and every other "\r" read as "\n"
UniversalNewlines(s) ==
    LET kept == SelectSeq([k \in 1..Len(s) |-> k],
                          LAMBDA k : ~(s[k] = "\n" /\ k > 1 /\ s[k - 1] = "\r"))
    IN  [i \in 1..Len(kept) |-> IF s[kept[i]] = "\r" THEN "\n" ELSE s[kept[i]]]

\* 'os.path.exists(file_path)' and 'existing_content == new_content' in
\* _write_note_file: new_content is "".join(output_markdown), and
\* existing_content what the text-mode read gives for the file
SameContent(dir, name, text) ==
    /\ name \in DOMAIN dir
    /\ UniversalNewlines(Concat(dir[name])) = Concat(text)

\* _write_note_file without an error, and 'notes_output_counter += 1'
NoteWritten(output_markdown, output_filename) ==
    IF SameContent(outdir, output_filename, output_markdown)
    THEN /\ outdir' = outdir
         /\ proc' = [proc EXCEPT !.notes_output_counter = @ + 1,
                         !.touched = @ \cup {output_filename},
                         !.next = @ + 1]
    ELSE /\ outdir' = DirWith(outdir, output_filename, output_markdown)
         /\ proc' = [proc EXCEPT !.notes_output_counter = @ + 1,
                         !.touched = @ \cup {output_filename},
                         !.written = @ + 1,
                         !.next = @ + 1]

\* a write that fails on the way leaves the first characters of the text; the
\* places modelled are those at most MaxCut characters into a line
MaxCut == 1

\* the texts that a write of `text` leaves when it fails on the way: the first
\* characters of it, fewer than all, as lines (none for the empty file)
PartlyWritten(text) ==
    {SubSeq(text, 1, j) \o (IF k = 0 THEN <<>> ELSE <<SubSeq(text[j + 1], 1, k)>>) :
        <<j, k>> \in {jk \in (0..(Len(text) - 1)) \X (0..MaxCut) :
                         jk[2] < Len(text[jk[1] + 1])}}

\* _write_note_file with an error in the reading or the writing of the file:
\* the file is as it was when the error came before open(file_path, "w"), and
\* holds the part of the new text that was written when it came after
NoteWriteFailed(output_markdown, output_filename) ==
    \/ outdir' = outdir
    \/ /\ ~SameContent(outdir, output_filename, output_markdown)
       /\ \E part \in PartlyWritten(output_markdown) :
              outdir' = DirWith(outdir, output_filename, part)

\* the three ends of an iteration over an ordinary note, `done` being what
\* _process_note computed before its call of _write_note_file
NoteProcessed(done) ==
    /\ done.raised = "none"
    /\ NoteWritten(done.markdown, done.filename)
    /\ ssg' = [ssg EXCEPT !.printed = @ + done.printed]
    /\ UNCHANGED <<pc, out>>

NoteRaised(done) ==
    /\ done.raised \in {"value_error", "index_error"}
    /\ pc' = "crashed"
    /\ ssg' = [ssg EXCEPT !.printed = @ + done.printed]
    /\ UNCHANGED <<proc, outdir, out>>

\* the except block of _write_note_file: the notification, then 'raise
\* SystemExit'; when requests.post raises in the notification that line is
\* not reached and the error of requests.post ends the run
NoteNotWrittenMut(done) ==
    /\ done.raised = "none"
    /\ NoteWriteFailed(done.markdown, done.filename)
    /\ \E answer \in NotifyOutcomes : out' = Notified(answer)
    /\ ssg' = [ssg EXCEPT !.printed = @ + done.printed]
    /\ UNCHANGED <<pc, proc>>
NoteNotWritten(done) ==
    /\ done.raised = "none"
    /\ NoteWriteFailed(done.markdown, done.filename)
    /\ \E answer \in NotifyOutcomes :
          /\ out' = Notified(answer)
          /\ pc' = IF answer = "raised" THEN "crashed" ELSE "write_failed"
    /\ ssg' = [ssg EXCEPT !.printed = @ + done.printed]
    /\ UNCHANGED proc

\* an iteration over an ordinary note: _process_note renders it and
\* _write_note_file writes the file unless it exists with the same text
LoopProcessesNote ==
    /\ pc = "loop"
    /\ proc.next <= Len(proc.notes)
    /\ ~IsContainer(CurrentNote)
    /\ NoteProcessed(_process_note(CurrentNote))
    /\ UNCHANGED <<split, bk, gather, notify, env, file, fetch, val>>

\* an iteration in which _process_note raises before it writes (ValueError of
\* strptime, IndexError of _delete_existing_title): nothing catches it
LoopNoteRaises ==
    /\ pc = "loop"
    /\ proc.next <= Len(proc.notes)
    /\ ~IsContainer(CurrentNote)
    /\ NoteRaised(_process_note(CurrentNote))
    /\ UNCHANGED <<split, bk, gather, notify, env, file, fetch, val>>

\* an iteration in which _write_note_file catches an error, notifies and
\* raises SystemExit, unless the notification raised
LoopWriteFails ==
    /\ pc = "loop"
    /\ proc.next <= Len(proc.notes)
    /\ ~IsContainer(CurrentNote)
    /\ NoteNotWritten(_process_note(CurrentNote))
    /\ UNCHANGED <<split, bk, gather, notify, env, file, fetch, val>>

\* the environment: a file of the output directory is removed while the notes
\* are processed
OutputFileRemoved ==
    /\ pc = "loop"
    /\ \E f \in DOMAIN outdir : outdir' = DirWithout(outdir, f)
    /\ UNCHANGED <<split, bk, gather, notify, ssg, proc, env, pc, file, fetch, val, out>>

\* the loop is over: count the files of the output directory again
LoopEnds ==
    /\ pc = "loop"
    /\ proc.next > Len(proc.notes)
    /\ proc' = [proc EXCEPT !.output_dir_num_files_end = NumFiles(outdir)]
    /\ pc' = "reconcile"
    /\ UNCHANGED <<split, bk, gather, notify, ssg, outdir, env, file, fetch, val, out>>

\* the condition of _ensure_num_parsed_notes_matches_outputted_notes
CountsMismatchMut(notes_input_counter, notes_output_counter, start_counter, end_counter) ==
    notes_input_counter # notes_output_counter
CountsMismatch(notes_input_counter, notes_output_counter, start_counter, end_counter) ==
    notes_input_counter # notes_output_counter \/ end_counter < start_counter

\* _ensure_num_parsed_notes_matches_outputted_notes: notify and sys.exit(1);
\* the process ends with status 1 by sys.exit(1), or by the error of
\* requests.post when the notification raised
ReconcileFails ==
    /\ pc = "reconcile"
    /\ CountsMismatch(proc.notes_input_counter, proc.notes_output_counter,
                      proc.output_dir_num_files_start, proc.output_dir_num_files_end)
    /\ \E answer \in NotifyOutcomes : out' = Notified(answer)
    /\ pc' = "reconcile_failed"
    /\ UNCHANGED <<split, bk, gather, notify, ssg, proc, outdir, env, file, fetch, val>>

\* _ensure_num_parsed_notes_matches_outputted_notes without a mismatch: it
\* returns and main goes on to remove the input file, after a notification
\* when DEBUG is "True"; when requests.post raises in that notification the
\* error ends the run and the input file stays
ReconcilePasses ==
    /\ pc = "reconcile"
    /\ ~CountsMismatch(proc.notes_input_counter, proc.notes_output_counter,
                       proc.output_dir_num_files_start, proc.output_dir_num_files_end)
    /\ IF env.DEBUG
       THEN \E answer \in NotifyOutcomes :
               /\ out' = Notified(answer)
               /\ pc' = IF answer = "raised" THEN "crashed" ELSE "cleanup"
       ELSE /\ out' = out
            /\ pc' = "cleanup"
    /\ UNCHANGED <<split, bk, gather, notify, ssg, proc, outdir, env, file, fetch, val>>

\* main: os.remove(input_filename), the sleep and the return
MainRemovesInput ==
    /\ pc = "cleanup"
    /\ file.exists
    /\ file' = NoFile
    /\ pc' = "done"
    /\ UNCHANGED <<split, bk, gather, notify, ssg, proc, outdir, env, fetch, val, out>>

\* the exit status of the process where the run has ended, -1 while it runs:
\* sys.exit(1) gives 1, an uncaught exception gives 1, 'raise SystemExit'
\* without a code gives 0, and so does the return of main
ExitStatus ==
    CASE pc \in {"exit1", "reconcile_failed", "crashed"} -> 1
      [] pc \in {"write_failed", "done"} -> 0
      [] OTHER -> -1

Next ==
    \/ MainStart
    \/ FetchAttemptSucceeds
    \/ FetchAttemptFailsRetry
    \/ FetchAttemptFailsLast
    \/ FetchLoopEnds
    \/ ValidatePassOk
    \/ ValidatePassFails
    \/ ValidateFileMissing
    \/ ValidateReadError
    \/ ValidateSleep
    \/ ValidateRefetch
    \/ ValidateGiveUp
    \/ InputFileVanishes
    \/ MainReadsNotes
    \/ LoopExpandsContainer
    \/ LoopExpandRaises
    \/ LoopProcessesNote
    \/ LoopNoteRaises
    \/ LoopWriteFails
    \/ OutputFileRemoved
    \/ LoopEnds
    \/ ReconcileFails
    \/ ReconcilePasses
    \/ MainRemovesInput

Spec == Init /\ [][Next]_vars

(***************************************************************************)
(* One validation pass over every bounded text (SpecValidate).             *)
(***************************************************************************)

MaxTextLines == 3

\* "| Tags: pub |", "| Tags: misc |", "| Tags: misc | Full sync completed",
\* "Tags: pub" (no bar), the log line, and a title line
TagsLinePub == KeyLine(TagsKey, TAG_TO_DOWNLOAD)
TagsLineMisc == KeyLine(TagsKey, MiscTag)
TagsLineMiscLogged == TagsLineMisc \o <<" ">> \o LogLine
BareTagsPub == TagsKey \o <<":", " ">> \o TAG_TO_DOWNLOAD

TextVocab ==
    {TagsLinePub, TagsLineMisc, TagsLineMiscLogged, BareTagsPub, LogLine, TitleLineA}

ValidateInit ==
    /\ split = SplitIdle
    /\ bk = BkIdle
    /\ gather = GatherIdle
    /\ notify = NotifyIdle
    /\ ssg = SsgIdle
    /\ env = [MAX_RETRIES |-> 1, DEBUG |-> FALSE, TITLE_SUBSTITUTIONS |-> TITLE_SUBSTITUTIONS]
    /\ pc = "validate"
    /\ file \in {[exists |-> TRUE, content |-> t, writer |-> "zero", rejected |-> FALSE] :
                    t \in SeqsUpTo(TextVocab, MaxTextLines) \ {<<>>}}
    /\ fetch = FetchIdle
    /\ val = ValIdle
    /\ out = OutIdle
    /\ proc = ProcIdle
    /\ outdir = EmptyDir

ValidateNext == ValidatePassOk \/ ValidatePassFails

SpecValidate == ValidateInit /\ [][ValidateNext]_vars

\* the lines of a text that are no log entries and hold "|" and "Tags:"
TagBearingLines(text) ==
    {k \in 1..Len(text) :
        /\ \A i \in 1..Len(log_entries_to_remove) :
              ~Contains(text[k], log_entries_to_remove[i])
        /\ Contains(text[k], <<"|">>)
        /\ Contains(text[k], <<"T", "a", "g", "s", ":">>)}

\* C5: a validation pass that read the text succeeds exactly when the text,
\* without its log lines, has a tag-bearing line and every tag-bearing line
\* contains the scope tag.
C5_PassSucceedsIffAllTagged ==
    val.verdict \in {"ok", "failed"} =>
        (val.verdict = "ok" <=>
            /\ TagBearingLines(val.checked.content) # {}
            /\ \A k \in TagBearingLines(val.checked.content) :
                  Contains(val.checked.content[k], <<"p", "u", "b">>))

\* a pass that succeeded on a text whose only untagged Tags line is a log line
C5_Witness ==
    /\ val.verdict = "ok"
    /\ \E k \in 1..Len(val.checked.content) :
          val.checked.content[k] = TagsLineMiscLogged
    /\ Len(val.checked.content) >= 2

(***************************************************************************)
(* Claims about the validation loop, under Spec.                           *)
(***************************************************************************)

\* C3 as claimed: when the validation loop returns true, the text its last pass
\* accepted was written by an invocation of the dump tool that exited zero,
\* and every tag-bearing line of it contains the scope tag.
C3_AcceptedDumpFromSuccessfulFetch ==
    val.result = "true" =>
        /\ val.checked.writer = "zero"
        /\ TagBearingLines(val.checked.content) # {}
        /\ \A k \in TagBearingLines(val.checked.content) :
              Contains(val.checked.content[k], <<"p", "u", "b">>)

\* C6 as claimed: every failed pass (tag missing, no tags line, file missing)
\* with passes left is followed by one sleep and then a re-fetch before the
\* next pass, no text that failed a pass is read by a later pass, and a first
\* pass that succeeds returns true without sleep or re-fetch.
C6_FailedDumpNeverRevalidated ==
    /\ (pc = "fetch" /\ fetch.caller = "validate") =>
          /\ Len(val.sleeps) = val.attempt + 1
          /\ val.refetches = val.rejections
    /\ pc = "validate" => val.refetches = val.rejections
    /\ (val.result = "true" /\ val.passes = 1) =>
          (val.sleeps = <<>> /\ val.refetches = 0)
    /\ val.verdict \in {"ok", "failed"} => ~val.checked.rejected

(***************************************************************************)
(* main from its start to the end of the validation, with retry budgets up *)
(* to MaxFetchRetries (SpecFetch).                                         *)
(***************************************************************************)

MaxFetchRetries == 3

FetchInit ==
    /\ split = SplitIdle
    /\ bk = BkIdle
    /\ gather = GatherIdle
    /\ notify = NotifyIdle
    /\ ssg = SsgIdle
    /\ env \in [MAX_RETRIES : 0..MaxFetchRetries, DEBUG : {FALSE},
               TITLE_SUBSTITUTIONS : {TITLE_SUBSTITUTIONS}]
    /\ pc = "start"
    /\ file = NoFile
    /\ fetch = FetchIdle
    /\ val = ValIdle
    /\ out = OutIdle
    /\ proc = ProcIdle
    /\ outdir = EmptyDir

FetchNext ==
    \/ MainStart
    \/ FetchAttemptSucceeds
    \/ FetchAttemptFailsRetry
    \/ FetchAttemptFailsLast
    \/ FetchLoopEnds
    \/ ValidatePassOk
    \/ ValidatePassFails
    \/ ValidateFileMissing
    \/ ValidateReadError
    \/ ValidateSleep
    \/ ValidateRefetch
    \/ ValidateGiveUp
    \/ InputFileVanishes

SpecFetch == FetchInit /\ [][FetchNext]_vars

\* C4 as claimed: the dump tool is invoked at most MAX_RETRIES times in a run.
C4_SharedRetryBudget == out.invocations <= env.MAX_RETRIES

\* C4 amended: every call of _run_sncli_with_backoff has its own budget of
\* MAX_RETRIES invocations, the validation loop makes at most MAX_RETRIES
\* passes and starts at most MAX_RETRIES - 1 re-fetches, so a run invokes the
\* dump tool at most MAX_RETRIES * MAX_RETRIES times.
C4_RetryBudgetPerCall ==
    /\ fetch.invocations <= env.MAX_RETRIES
    /\ val.passes <= env.MAX_RETRIES
    /\ val.refetches <= Max(0, env.MAX_RETRIES - 1)
    /\ out.invocations <= env.MAX_RETRIES * (1 + val.refetches)
    /\ out.invocations <= env.MAX_RETRIES * env.MAX_RETRIES

\* a run with MAX_RETRIES = 3 that invoked the dump tool three times in the
\* first fetch and three times in each of two re-fetches: nine invocations,
\* more than 2 * MAX_RETRIES
C4_Witness ==
    /\ env.MAX_RETRIES = 3
    /\ val.refetches = env.MAX_RETRIES - 1
    /\ out.invocations = env.MAX_RETRIES * env.MAX_RETRIES
    /\ out.invocations > 2 * env.MAX_RETRIES

\* the attempt indices 0 .. n-1 in order
Indices(n) == [k \in 1..n |-> k - 1]

\* C7 as claimed: a call of _run_sncli_with_backoff invokes the dump tool at
\* most MAX_RETRIES times; it returns true at the first invocation that exits
\* zero; it returns false once MAX_RETRIES invocations have failed; it has
\* slept once after each failed attempt but the last, with attempt indices
\* 0, 1, ..., MAX_RETRIES - 2 on total failure.
C7_FalseAfterMaxInvocations ==
    /\ fetch.invocations <= env.MAX_RETRIES
    /\ fetch.result = "true" =>
          /\ fetch.last = "zero"
          /\ fetch.failures = fetch.invocations - 1
          /\ fetch.sleeps = Indices(fetch.failures)
    /\ fetch.result = "false" =>
          /\ fetch.last # "zero"
          /\ fetch.invocations = env.MAX_RETRIES
          /\ fetch.failures = env.MAX_RETRIES
          /\ fetch.sleeps = Indices(env.MAX_RETRIES - 1)

\* C7 amended: a call of _run_sncli_with_backoff makes at most MAX_RETRIES
\* attempts, and an attempt invokes the dump tool once, or not at all when
\* open() raised before it; the call returns true at the first attempt whose
\* invocation exits zero, every attempt before it having failed, and false
\* once MAX_RETRIES attempts have failed; it has slept once after each failed
\* attempt but the last of a total failure, with the attempt indices 0, 1,
\* ... in order; once it has returned it attempts, invokes and sleeps no more.
C7_FetchBoundedByAttempts ==
    /\ [](/\ fetch.attempt <= env.MAX_RETRIES
          /\ fetch.failures <= env.MAX_RETRIES
          /\ fetch.invocations <= env.MAX_RETRIES
          /\ (pc = "fetch" /\ fetch.result = "none") =>
                /\ fetch.failures = fetch.attempt
                /\ fetch.invocations <= fetch.attempt
                /\ fetch.sleeps = Indices(fetch.attempt)
          /\ fetch.result = "true" =>
                /\ fetch.last = "zero"
                /\ fetch.failures = fetch.attempt
                /\ fetch.failures < env.MAX_RETRIES
                /\ fetch.invocations \in 1..(fetch.failures + 1)
                /\ fetch.sleeps = Indices(fetch.failures)
          /\ fetch.result = "false" =>
                /\ fetch.last # "zero"
                /\ fetch.failures = env.MAX_RETRIES
                /\ fetch.sleeps = Indices(env.MAX_RETRIES - 1))
    /\ [][/\ fetch.result # "none" =>
                \/ fetch' = fetch /\ out'.invocations = out.invocations
                \/ fetch' = [FetchIdle EXCEPT !.caller = "validate"]
          /\ fetch'.invocations - fetch.invocations \in {0, 1} =>
                out'.invocations - out.invocations
                    = fetch'.invocations - fetch.invocations]_vars

\* a call that returned false after three failed attempts, in one of which
\* open() raised: two invocations, and the sleeps of the attempts 0 and 1
C7_Witness ==
    /\ fetch.result = "false"
    /\ env.MAX_RETRIES = 3
    /\ fetch.failures = 3
    /\ fetch.invocations = 2
    /\ fetch.sleeps = <<0, 1>>

(***************************************************************************)
(* Claims about the reconciliation at the end of main, under Spec.         *)
(***************************************************************************)

\* C9: at the reconciliation, when the input count differs from the output
\* count, or the directory holds fewer files at the end than at the start,
\* the run notifies once and ends with status 1, the temporary input file in
\* place; otherwise it notifies only when DEBUG is "True" and goes on to
\* delete the file, unless that notification raised, which ends the run with
\* status 1 and the file in place.  The file is deleted on no other way.
C9_ReconciliationOutcome ==
    /\ [][pc = "reconcile" =>
            IF \/ proc.notes_input_counter # proc.notes_output_counter
               \/ proc.output_dir_num_files_end < proc.output_dir_num_files_start
            THEN /\ pc' = "reconcile_failed"
                 /\ out'.notifications = out.notifications + 1
                 /\ ExitStatus' = 1
                 /\ file' = file
            ELSE /\ pc' \in {"cleanup", "crashed"}
                 /\ out'.notifications = out.notifications + (IF env.DEBUG THEN 1 ELSE 0)
                 /\ pc' = "crashed" <=> out'.uncaught
                 /\ pc' = "crashed" => env.DEBUG /\ ExitStatus' = 1
                 /\ file' = file]_vars
    /\ [][pc \notin {"reconcile_failed", "crashed"}]_vars
    /\ [][/\ pc' = "cleanup" => pc \in {"reconcile", "cleanup"}
          /\ pc' = "done" => pc \in {"cleanup", "done"}
          /\ pc = "cleanup" /\ pc' # pc => pc' = "done" /\ ~file'.exists]_vars
    /\ [](pc = "reconcile_failed" =>
            /\ \/ proc.notes_input_counter # proc.notes_output_counter
               \/ proc.output_dir_num_files_end < proc.output_dir_num_files_start
            /\ out.notifications = 1
            /\ file.exists)
    /\ [](pc \in {"cleanup", "done"} =>
            /\ proc.notes_input_counter = proc.notes_output_counter
            /\ proc.output_dir_num_files_end >= proc.output_dir_num_files_start
            /\ out.notifications = (IF env.DEBUG THEN 1 ELSE 0)
            /\ ~out.uncaught)
    /\ [](pc = "done" => ~file.exists)

\* a run whose counters agree but whose directory lost a file while the notes
\* were processed: the reconciliation failed
C9_Witness ==
    /\ pc = "reconcile_failed"
    /\ proc.notes_input_counter = proc.notes_output_counter
    /\ proc.notes_output_counter >= 1
    /\ proc.output_dir_num_files_end < proc.output_dir_num_files_start

\* C10 as claimed: when the reconciliation passes, the number of distinct
\* files the run wrote or found identical equals the number of input notes,
\* the parts of containers included, notes with the same slug included.
C10_DistinctFilesEqualNotes ==
    pc \in {"cleanup", "done"} =>
        Cardinality(proc.touched) = proc.notes_input_counter

(***************************************************************************)
(* _write_note_file over bounded lists of notes and the initial            *)
(* directories (SpecWrite): the loop of main started at a list of notes.   *)
(***************************************************************************)

MaxWrites == 3

\* the first part of a container note titled "\r?x" (a backslash, "r", "?",
\* "x"): re.sub in _adjust_note_header_title takes the title as pattern and as
\* replacement template, so the title of the part holds a carriage return
CarriageReturnNote ==
    _split_continuous_note(
        NoteText(<<"\\", "r", "?", "x">>,
                 TAG_TO_DOWNLOAD \o <<",">> \o CONTINUOUS_NOTE_TAG,
                 <<<<"c">>, BodyLineX>>)).notes[1]

\* the notes the calls are made for: three that go to "a.md" with two
\* different texts and a blank-line variant, one that goes to "b.md", and one
\* whose content holds a carriage return
WriteNotes ==
    Range(_split_notes(_trash_sncli_log(DumpOne)))
        \cup Range(_split_notes(_trash_sncli_log(DumpSameSlug)))
        \cup {NoteText(<<"b">>, TAG_TO_DOWNLOAD, <<BodyLineX>>), CarriageReturnNote}

WriteInit ==
    /\ split = SplitIdle
    /\ bk = BkIdle
    /\ gather = GatherIdle
    /\ notify = NotifyIdle
    /\ ssg = SsgIdle
    /\ env = [MAX_RETRIES |-> 0, DEBUG |-> FALSE, TITLE_SUBSTITUTIONS |-> TITLE_SUBSTITUTIONS]
    /\ pc = "loop"
    /\ file = NoFile
    /\ fetch = FetchIdle
    /\ val = ValIdle
    /\ out = OutIdle
    /\ \E notes \in SeqsUpTo(WriteNotes, MaxWrites) \ {<<>>} :
          proc = [ProcIdle EXCEPT !.notes = notes,
                                  !.notes_input_counter = Len(notes)]
    /\ outdir \in InitialDirs

WriteNext == LoopProcessesNote \/ LoopWriteFails

SpecWrite == WriteInit /\ [][WriteNext]_vars

\* a call of _write_note_file returned: the loop went on to the next note
WriteReturned == pc' = "loop" /\ proc'.next = proc.next + 1

\* C11 as claimed: a call of _write_note_file that returns leaves the file
\* with the candidate content and every other file as it was; it writes
\* nothing when the file existed with content identical to the candidate and
\* writes once otherwise; so two calls with the same content for the same path
\* make exactly one physical write and leave the file as one call does.
C11_WriteIdempotent ==
    /\ [][WriteReturned =>
            LET done == _process_note(CurrentNote)
                same == /\ done.filename \in DOMAIN outdir
                        /\ outdir[done.filename] = done.markdown
            IN  /\ done.filename \in DOMAIN outdir'
                /\ outdir'[done.filename] = done.markdown
                /\ \A f \in DOMAIN outdir \ {done.filename} :
                      f \in DOMAIN outdir' /\ outdir'[f] = outdir[f]
                /\ DOMAIN outdir' = DOMAIN outdir \cup {done.filename}
                /\ same => (outdir' = outdir /\ proc'.written = proc.written)
                /\ ~same => proc'.written = proc.written + 1]_vars
    /\ []((proc.next = 3 /\ proc.notes[1] = proc.notes[2]) => proc.written <= 1)

(***************************************************************************)
(* Claims about the fatal conditions of a run, under Spec.                 *)
(***************************************************************************)

\* C12: an I/O failure in _write_note_file ends the run there: the step calls
\* the notification exactly once, counts and processes nothing, and ends the
\* run, by 'raise SystemExit' or by the error of the notification when
\* requests.post raised; no step follows it, so the write is not retried and
\* no later note is processed.
C12_WriteFailureIsFatal ==
    /\ [][(pc = "loop" /\ out'.notifications # out.notifications) =>
            /\ pc' \in {"write_failed", "crashed"}
            /\ pc' = "crashed" <=> out'.uncaught
            /\ out'.notifications = out.notifications + 1
            /\ proc' = proc]_vars
    /\ [][pc \notin {"write_failed", "crashed"}]_vars
    /\ [](\/ pc = "write_failed"
          \/ pc = "crashed" /\ out.uncaught /\ proc.next <= Len(proc.notes)
          => /\ out.notifications = 1
             /\ proc.next <= Len(proc.notes)
             /\ proc.notes_output_counter < proc.notes_input_counter)

\* a run that wrote one note and failed at the second, which is not the last
C12_Witness ==
    /\ pc = "write_failed"
    /\ proc.notes_output_counter = 1
    /\ proc.written = 1
    /\ proc.next = 2
    /\ Len(proc.notes) = 2

\* C13 as claimed: every fatal condition (write error, count mismatch, fetch
\* budget exhausted, validation budget exhausted) has sent a notification and
\* ends the run with a non-zero exit status.
C13_FatalExitsNonZero ==
    pc \in {"write_failed", "reconcile_failed", "exit1"} =>
        (out.notifications = 1 /\ ExitStatus # 0)

(***************************************************************************)
(* The expansion of bounded container notes and the processing of their    *)
(* parts (SpecExpand): the loop of main started at one container note.     *)
(***************************************************************************)

MaxBodyLines == 4

\* a plain title, a title that occurs twice in its own line "| Title: T |", a
\* title that is another regular expression than its own text, and a title
\* that is no regular expression
ExpandTitles == {<<"c">>, <<"T">>, <<"C", "+", "+">>, <<"a", "(", "b">>}

\* the lines after the header: an empty line, "x", " y", " ", and "a |", a
\* line that _get_note_header takes for a line of the header
BodyVocab == {<<>>, BodyLineX, <<" ", "y">>, <<" ">>, <<"a", " ", "|">>}

ContainerTags == TAG_TO_DOWNLOAD \o <<",">> \o CONTINUOUS_NOTE_TAG

\* "pub,c:list", and "pub,c:list,c:c:list", which holds the tag "c:list"
\* again once "c:list" is replaced by "list"
ExpandTags == {ContainerTags, ContainerTags \o <<",", "c", ":">> \o CONTINUOUS_NOTE_TAG}

ExpandInit ==
    /\ split = SplitIdle
    /\ bk = BkIdle
    /\ gather = GatherIdle
    /\ notify = NotifyIdle
    /\ ssg = SsgIdle
    /\ env = [MAX_RETRIES |-> 0, DEBUG |-> FALSE, TITLE_SUBSTITUTIONS |-> TITLE_SUBSTITUTIONS]
    /\ pc = "loop"
    /\ file = NoFile
    /\ fetch = FetchIdle
    /\ val = ValIdle
    /\ out = OutIdle
    /\ \E title \in ExpandTitles, tags \in ExpandTags,
          body \in SeqsUpTo(BodyVocab, MaxBodyLines) :
          proc = [ProcIdle EXCEPT !.notes = <<NoteText(title, tags, body)>>,
                                  !.notes_input_counter = 1]
    /\ outdir = EmptyDir

ExpandNext == LoopExpandsContainer \/ LoopExpandRaises \/ LoopProcessesNote

SpecExpand == ExpandInit /\ [][ExpandNext]_vars

\* the container of a run of SpecExpand and its title
Container == proc.notes[1]
ContainerTitle == _gather_header_info(Container).title

\* the header of a note as the claims speak of it: the lines at its start
\* that are lines of the header box; the body is what follows them
LeadingHeaderLines(note) ==
    CHOOSE n \in 0..Len(note) :
        /\ \A k \in 1..n : IsHeaderLine(note[k])
        /\ n < Len(note) => ~IsHeaderLine(note[n + 1])
BodyAfterHeader(note) == SubSeq(note, LeadingHeaderLines(note) + 1, Len(note))

\* the lines that hold more than whitespace
NonBlank(lines) == SelectSeq(lines, LAMBDA l : Strip(l) # <<>>)

\* C14 as claimed: K being the number of non-blank lines after the header of
\* the container, its expansion gives K notes, one per such line in order,
\* each with that line (without the whitespace around it) as the one line of
\* its body that is not blank, and, for the plain title "c", with the titles
\* "c - K", ..., "c - 1" in that order.
C14_OnePartPerNonBlankLine ==
    proc.next = 2 =>
        LET entries == NonBlank(BodyAfterHeader(Container))
        IN  /\ Len(proc.notes) = 1 + Len(entries)
            /\ \A i \in 1..Len(entries) :
                  /\ NonBlank(BodyAfterHeader(proc.notes[1 + i])) = <<Strip(entries[i])>>
                  /\ ContainerTitle = <<"c">> =>
                        _gather_header_info(proc.notes[1 + i]).title
                            = <<"c", " ", "-", " ">> \o IntToStr(Len(entries) - i + 1)

\* C15 as claimed: the loop of main never processes or writes a note that
\* carries the continuous tag: the iteration over it changes no file and no
\* output count, and either appends its parts and moves on or ends the run
\* with the error of the expansion; every note after the container is a part
\* appended by the expansion, each part is processed once, in order, and
\* every file written holds the rendering of a part.
C15_ContainerNeverWritten ==
    /\ [][(pc = "loop" /\ InList(CONTINUOUS_NOTE_TAG,
                                  _gather_header_info(CurrentNote).tags)) =>
            /\ outdir' = outdir
            /\ proc'.notes_output_counter = proc.notes_output_counter
            /\ proc'.touched = proc.touched
            /\ \/ /\ pc' = "loop"
                  /\ proc'.next = proc.next + 1
                  /\ Len(proc'.notes) >= Len(proc.notes)
                  /\ SubSeq(proc'.notes, 1, Len(proc.notes)) = proc.notes
               \/ /\ pc' = "crashed"
                  /\ proc' = proc]_vars
    /\ [](proc.next >= 2 =>
            /\ proc.notes_output_counter = proc.next - 2
            /\ proc.notes_input_counter = Len(proc.notes) - 1
            /\ _convert_title_to_filename(ContainerTitle) \notin DOMAIN outdir
            /\ \A f \in DOMAIN outdir :
                  \E k \in 2..(proc.next - 1) :
                      /\ _process_note(proc.notes[k]).filename = f
                      /\ _process_note(proc.notes[k]).markdown = outdir[f])

\* the tag list of the container with the continuous tag in its replacement
\* form
ReplacedTags(tags) ==
    [k \in 1..Len(tags) |->
        IF tags[k] = CONTINUOUS_NOTE_TAG THEN ContinuousReplacement ELSE tags[k]]

\* C16 as claimed: for every container title, the fields extracted from the
\* header of part n are the container's title followed by " - n", the
\* container's date, and the container's tags with the continuous tag in its
\* replacement form.
C16_PartHeaderFromContainer ==
    proc.next >= 2 =>
        \A i \in 1..(Len(proc.notes) - 1) :
            LET part == _gather_header_info(proc.notes[1 + i])
                whole == _gather_header_info(Container)
            IN  /\ part.title
                      = whole.title \o <<" ", "-", " ">>
                            \o IntToStr(Len(proc.notes) - i)
                /\ part.date = whole.date
                /\ part.tags = ReplacedTags(whole.tags)

(***************************************************************************)
(* _create_ssg_header over bounded tag lists (SpecHeader): the loop of     *)
(* main started at one note with the tags, its file being the result.      *)
(***************************************************************************)

MaxTags == 3

\* the tags with a meaning in the configuration, and one without
TagVocab ==
    Range(IGNORED_TAGS) \cup Range(UNLISTED_TAGS)
        \cup {TITLE_TO_SUMMARY_SUBSTITUTIONS[k][1] :
                 k \in 1..Len(TITLE_TO_SUMMARY_SUBSTITUTIONS)}
        \cup {MiscTag}

\* "tIl b": both patterns of the substitution list occur in it, in another
\* case than the pattern's or the replacement's
HeaderTitle == <<"t", "I", "l", " ", "b">>

\* ",".join(tags)
RECURSIVE JoinTags(_)
JoinTags(tags) ==
    IF tags = <<>> THEN <<>>
    ELSE IF Len(tags) = 1 THEN tags[1]
         ELSE tags[1] \o <<",">> \o JoinTags(Tail(tags))

\* a note with the tag list `tags`; without a Tags line when the list is empty
HeaderNote(tags) ==
    IF tags = <<>>
    THEN <<RuleLine, KeyLine(TitleKey, HeaderTitle), KeyLine(DateKey, GoodDate),
           RuleLine, BodyLineX>>
    ELSE NoteText(HeaderTitle, JoinTags(tags), <<BodyLineX>>)

HeaderInit ==
    /\ split = SplitIdle
    /\ bk = BkIdle
    /\ gather = GatherIdle
    /\ notify = NotifyIdle
    /\ ssg = SsgIdle
    /\ env = [MAX_RETRIES |-> 0, DEBUG |-> FALSE, TITLE_SUBSTITUTIONS |-> TITLE_SUBSTITUTIONS]
    /\ pc = "loop"
    /\ file = NoFile
    /\ fetch = FetchIdle
    /\ val = ValIdle
    /\ out = OutIdle
    /\ \E tags \in SeqsUpTo(TagVocab, MaxTags) :
          proc = [ProcIdle EXCEPT !.notes = <<HeaderNote(tags)>>,
                                  !.notes_input_counter = 1]
    /\ outdir = EmptyDir

HeaderNext == LoopProcessesNote

SpecHeader == HeaderInit /\ [][HeaderNext]_vars

\* the tag list of the note, and the lines of the file written for it
InputTags == _gather_header_info(proc.notes[1]).tags
Written == outdir[CHOOSE f \in DOMAIN outdir : TRUE]

\* the written file has the line `text`
HasLine(text) == \E k \in 1..Len(Written) : Written[k] = text \o <<"\n">>

UnlistedTrue == <<"u", "n", "l", "i", "s", "t", "e", "d", ":", " ", "t", "r", "u", "e">>
UnlistedFalse == <<"u", "n", "l", "i", "s", "t", "e", "d", ":", " ", "f", "a", "l", "s", "e">>

\* C17 as claimed: the unlisted line is "true" when a tag of the original tag
\* list is one of the unlisted tags, and "false" otherwise.
C17_UnlistedIfAnyTag ==
    proc.next = 2 =>
        IF \E k \in 1..Len(InputTags) : InputTags[k] \in Range(UNLISTED_TAGS)
        THEN HasLine(UnlistedTrue) /\ ~HasLine(UnlistedFalse)
        ELSE HasLine(UnlistedFalse) /\ ~HasLine(UnlistedTrue)

\* the tag list without the scope tag "pub" and the constant tag "blog"
KeptTags ==
    SelectSeq(InputTags,
              LAMBDA t : t # <<"p", "u", "b">> /\ t # <<"b", "l", "o", "g">>)

\* C18: the lines of the file after "categories:" are "  - Uncategorized" when
\* no tag is left after every "pub" and "blog" is removed, and otherwise one
\* line "  - <tag>" per tag left, in the order of the tag list; the header's
\* closing "---" follows.
C18_TagRendering ==
    proc.next = 2 =>
        LET n == IF KeptTags = <<>> THEN 1 ELSE Len(KeptTags)
        IN  /\ Written[9] = <<"c", "a", "t", "e", "g", "o", "r", "i", "e", "s", ":", "\n">>
            /\ Len(Written) >= 10 + n
            /\ \A k \in 1..n :
                  Written[9 + k]
                      = <<" ", " ", "-", " ">>
                            \o (IF KeptTags = <<>>
                                THEN <<"U", "n", "c", "a", "t", "e", "g", "o", "r", "i", "z", "e", "d">>
                                ELSE KeptTags[k])
                            \o <<"\n">>
            /\ Written[10 + n] = <<"-", "-", "-", "\n">>

\* a tag list with the scope tag twice and one other tag gave one line
C18_Witness ==
    /\ proc.next = 2
    /\ Len(InputTags) = 3
    /\ InputTags[1] = <<"p", "u", "b">>
    /\ InputTags[3] = <<"p", "u", "b">>
    /\ Len(KeptTags) = 1
    /\ HasLine(<<" ", " ", "-", " ">> \o KeptTags[1])

\* the summary line for the first of the pairs ("til", "TIL"),
\* ("blog", "Blog"), ("b", "B") whose pattern-tag `has` holds of; the title
\* "tIl b" has no "blog" to replace
SummaryLineFor(has(_)) ==
    <<"s", "u", "m", "m", "a", "r", "y", ":", " ">>
        \o (IF has(<<"t", "i", "l">>) THEN <<"T", "I", "L", " ", "b">>
            ELSE IF has(<<"b", "l", "o", "g">>) THEN HeaderTitle
                 ELSE IF has(<<"b">>) THEN <<"t", "I", "l", " ", "B">>
                      ELSE <<>>)
        \o <<"\n">>

\* C19 as claimed: the summary line holds the title after the substitution of
\* the first pair, in configured order, whose pattern-tag is in the note's tag
\* list, the pattern replaced whatever its case; it is empty when no pair's
\* pattern-tag is in the tag list.
C19_SummaryFromFirstPair ==
    proc.next = 2 =>
        Written[8] = SummaryLineFor(LAMBDA t : \E k \in 1..Len(InputTags) : InputTags[k] = t)

\* C19 amended: the pairs are looked up in the tag list that is left after
\* the scope tag and "blog" were removed, so a pair whose pattern-tag is one
\* of these never applies; the rest is as claimed.
C19_SummaryFromFirstKeptPair ==
    proc.next = 2 =>
        Written[8] = SummaryLineFor(LAMBDA t : \E k \in 1..Len(KeptTags) : KeptTags[k] = t)

\* a tag list with "b" before "til": the pair for "til", first in the
\* configured order, made the summary
C19_Witness ==
    /\ proc.next = 2
    /\ Len(InputTags) >= 2
    /\ InputTags[1] = <<"b">>
    /\ InputTags[2] = <<"t", "i", "l">>
    /\ HasLine(<<"s", "u", "m", "m", "a", "r", "y", ":", " ", "T", "I", "L", " ", "b">>)

(***************************************************************************)
(* _create_ssg_header with an error in its try block: called with          *)
(* arguments that may be None, and in the loop of main over bounded lists  *)
(* of notes, for values of TITLE_SUBSTITUTIONS with a malformed item, an   *)
(* invalid pattern or an invalid replacement (SpecSoft).                   *)
(***************************************************************************)

MaxSoftNotes == 3

\* a tag that is no pattern of the re module: "a("
BadPatternTag == <<"a", "(">>

\* a tag that is a pattern with a character special to the re module: "t.l"
DotTag == <<"t", ".", "l">>

\* items of TITLE_SUBSTITUTIONS: "x" and "a:b:c" give tuples that are no
\* pairs, "a(:A" a pair whose find is no pattern, "misc:\1" a pair whose
\* replace refers to a group that the find does not have
MalformedItems == {<<"x">>, <<"a", ":", "b", ":", "c">>, <<>>}
InvalidItems == {BadPatternTag \o <<":", "A">>, MiscTag \o <<":", "\\", "1">>}

\* values of TITLE_SUBSTITUTIONS: the default alone, with "x" after it, with
\* "x" before it, "til:TIL,a:b:c,b:B", "a(:A,til:TIL", "misc:\1," and the
\* default, "t.l:<\g<0>>,x" (a pair that re.sub accepts, with a pattern and
\* a replacement that are not literal, before an item that is no pair), and
\* the empty string
SubstitutionTexts ==
    {TITLE_SUBSTITUTIONS,
     TITLE_SUBSTITUTIONS \o <<",", "x">>,
     <<"x", ",">> \o TITLE_SUBSTITUTIONS,
     <<"t", "i", "l", ":", "T", "I", "L", ",", "a", ":", "b", ":", "c", ",", "b", ":", "B">>,
     BadPatternTag \o <<":", "A", ",", "t", "i", "l", ":", "T", "I", "L">>,
     MiscTag \o <<":", "\\", "1", ",">> \o TITLE_SUBSTITUTIONS,
     DotTag \o <<":", "<", "\\", "g", "<", "0", ">", ">", ",", "x">>,
     <<>>}

\* notes "tIl b" with the tag "misc", "a(" or "t.l", and the note "a" tagged
\* "pub"
SoftNotes ==
    {HeaderNote(<<MiscTag>>), HeaderNote(<<BadPatternTag>>), HeaderNote(<<DotTag>>),
     NoteText(<<"a">>, TAG_TO_DOWNLOAD, <<BodyLineX>>)}

\* the date of a call of _create_ssg_header
SoftDate == <<"2", "0", "2", "3">>

\* the arguments of a call of _create_ssg_header, each supplied or None
SoftCalls ==
    [pc : {"called"},
     title : {None, Some(HeaderTitle)},
     subtitle : {None, Some(<<>>)},
     author : {None, Some(AUTHOR)},
     date : {None, Some(SoftDate)},
     tags : {None, Some(<<MiscTag>>), Some(<<TAG_TO_DOWNLOAD, <<"b">>>>),
             Some(<<BadPatternTag>>), Some(<<DotTag>>)},
     header : {<<>>},
     printed : {0}]

SoftInit ==
    /\ split = SplitIdle
    /\ bk = BkIdle
    /\ gather = GatherIdle
    /\ notify = NotifyIdle
    /\ env \in [MAX_RETRIES : {0}, DEBUG : {FALSE}, TITLE_SUBSTITUTIONS : SubstitutionTexts]
    /\ file = NoFile
    /\ fetch = FetchIdle
    /\ val = ValIdle
    /\ out = OutIdle
    /\ outdir = EmptyDir
    /\ \/ /\ pc = "loop"
          /\ ssg = SsgIdle
          /\ \E notes \in SeqsUpTo(SoftNotes, MaxSoftNotes) \ {<<>>} :
                proc = [ProcIdle EXCEPT !.notes = notes,
                                        !.notes_input_counter = Len(notes)]
       \/ /\ pc = "idle"
          /\ ssg \in SoftCalls
          /\ proc = ProcIdle

\* a call of _create_ssg_header returns the header lines, after it printed
\* when its try block raised
CreateHeaderReturns ==
    /\ ssg.pc = "called"
    /\ LET done == HeaderTry(TitleSubstitutions(env.TITLE_SUBSTITUTIONS), ssg.title,
                             ssg.subtitle, ssg.author, ssg.date, ssg.tags)
       IN  /\ done.st \in {"ok", "raise"}
           /\ ssg' = [ssg EXCEPT !.pc = "returned",
                                 !.header = SplitOn(done.t, "\n"),
                                 !.printed = @ + PrintedBy(done)]
    /\ UNCHANGED <<split, bk, gather, notify, runVars>>

SoftNext == LoopProcessesNote \/ LoopEnds \/ CreateHeaderReturns

SpecSoft == SoftInit /\ [][SoftNext]_vars

\* the items of the value of TITLE_SUBSTITUTIONS, and whether the loop over
\* them ends at item k for a call with the tags `tags`: the item is no pair,
\* or the part before its ":" is one of the tags
SoftItems == SplitOn(env.TITLE_SUBSTITUTIONS, ",")
EndsAt(k, tags) ==
    \/ SoftItems[k] \in MalformedItems
    \/ \E n \in 1..Len(SoftItems[k]) :
          SoftItems[k][n] = ":" /\ SubSeq(SoftItems[k], 1, n - 1) \in tags

\* the loop over the items raises for a call with the tags `tags`: the first
\* item it ends at is no pair, or a pair that re.sub rejects
LoopRaises(tags) ==
    \E k \in 1..Len(SoftItems) :
        /\ EndsAt(k, tags)
        /\ \A j \in 1..(k - 1) : ~EndsAt(j, tags)
        /\ SoftItems[k] \in MalformedItems \cup InvalidItems

Placeholder(name) == <<"{", "{">> \o name \o <<"}", "}">>

\* C20: a call of _create_ssg_header whose try block raises (an argument is
\* None, an item of the substitution list is no pair, or re.sub rejects the
\* pattern or the replacement of the pair that applies) prints once and
\* returns the header lines with every placeholder before the error rendered
\* and every later one left; it prints nothing when nothing raises.  In the
\* run the note is counted and its file is written with that header, the
\* summary placeholder left exactly when the loop over the list raised; the
\* loop then goes to the next note, every note of the list is processed, and
\* no notification is sent.
C20_SubstitutionErrorIsSoft ==
    /\ [](ssg.pc = "returned" =>
            LET okTitle == ssg.title.set
                okAuthor == okTitle /\ ssg.subtitle.set /\ ssg.author.set
                okDate == okAuthor /\ ssg.date.set
                okTags == okDate /\ ssg.tags.set
                raises == ~okTags \/ LoopRaises(Range(ssg.tags.value) \ {TAG_TO_DOWNLOAD})
                line(key, ok, value) ==
                    key \o <<":", " ">> \o (IF ok THEN value ELSE Placeholder(key))
            IN  /\ Len(ssg.header) = 11
                /\ ssg.header[2] = line(<<"t", "i", "t", "l", "e">>, okTitle, HeaderTitle)
                /\ ssg.header[3] = line(<<"a", "u", "t", "h", "o", "r">>, okAuthor, AUTHOR)
                /\ ssg.header[5] =
                      line(<<"u", "n", "l", "i", "s", "t", "e", "d">>, okTags, <<"f", "a", "l", "s", "e">>)
                /\ ssg.header[6] = line(<<"d", "a", "t", "e">>, okDate, SoftDate)
                /\ ssg.header[7] =
                      <<"u", "r", "l", ":", " ", "/">>
                      \o (IF okDate THEN <<"t", "i", "l", "-", "b">> ELSE Placeholder(<<"s", "l", "u", "g">>))
                      \o <<"/">>
                /\ ssg.header[10] =
                      <<" ", " ", "-", " ">>
                      \o (IF ~okTags THEN Placeholder(<<"t", "a", "g">>)
                          ELSE IF ssg.tags.value[1] = TAG_TO_DOWNLOAD THEN ssg.tags.value[2]
                               ELSE ssg.tags.value[1])
                /\ (ssg.header[8] = line(<<"s", "u", "m", "m", "a", "r", "y">>, FALSE, <<>>)) <=> raises
                /\ ssg.printed = IF raises THEN 1 ELSE 0)
    /\ [][(pc = "loop" /\ proc.next <= Len(proc.notes)) =>
            LET info == _gather_header_info(CurrentNote)
                name == _convert_title_to_filename(info.title)
                raises == LoopRaises({info.tags[1]} \ {TAG_TO_DOWNLOAD})
            IN  /\ pc' = "loop"
                /\ proc'.next = proc.next + 1
                /\ proc'.notes_output_counter = proc.notes_output_counter + 1
                /\ out' = out
                /\ ssg'.printed = ssg.printed + (IF raises THEN 1 ELSE 0)
                /\ name \in DOMAIN outdir'
                /\ outdir'[name][2] = <<"t", "i", "t", "l", "e", ":", " ">> \o info.title \o <<"\n">>
                /\ outdir'[name][3] = <<"a", "u", "t", "h", "o", "r", ":", " ", "r", "o", "o", "t", "\n">>
                /\ outdir'[name][5] = UnlistedFalse \o <<"\n">>
                /\ outdir'[name][6] = <<"d", "a", "t", "e", ":", " ">> \o _convert_date_format(info.date) \o <<"\n">>
                /\ outdir'[name][10] =
                      <<" ", " ", "-", " ">>
                      \o (IF info.tags[1] = TAG_TO_DOWNLOAD
                          THEN <<"U", "n", "c", "a", "t", "e", "g", "o", "r", "i", "z", "e", "d">>
                          ELSE info.tags[1])
                      \o <<"\n">>
                /\ (outdir'[name][8] = <<"s", "u", "m", "m", "a", "r", "y", ":", " ">>
                        \o Placeholder(<<"s", "u", "m", "m", "a", "r", "y">>) \o <<"\n">>)
                   <=> raises]_vars
    /\ [](pc = "reconcile" =>
            /\ proc.notes_output_counter = proc.notes_input_counter
            /\ proc.notes_output_counter = Len(proc.notes)
            /\ out.notifications = 0)

\* two notes under "a(:A,til:TIL": re.sub rejected the pattern "a(" for the
\* note tagged "a(", which was written with the summary placeholder left after
\* one print, and the note after it was processed too
C20_Witness ==
    /\ env.TITLE_SUBSTITUTIONS = BadPatternTag \o <<":", "A", ",", "t", "i", "l", ":", "T", "I", "L">>
    /\ pc = "reconcile"
    /\ ssg.printed = 1
    /\ Len(proc.notes) = 2
    /\ proc.notes[1] = HeaderNote(<<BadPatternTag>>)
    /\ proc.notes[2] = NoteText(<<"a">>, TAG_TO_DOWNLOAD, <<BodyLineX>>)
    /\ outdir[<<"t", "i", "l", "-", "b", ".", "m", "d">>][8] =
          <<"s", "u", "m", "m", "a", "r", "y", ":", " ">>
          \o Placeholder(<<"s", "u", "m", "m", "a", "r", "y">>) \o <<"\n">>
    /\ <<"a", ".", "m", "d">> \in DOMAIN outdir

(***************************************************************************)
(* _gather_header_info run line by line over every bounded note            *)
(* (SpecGather).                                                           *)
(***************************************************************************)

MaxGatherLines == 3

\* the lines of the notes, each with what it is built to do: set the title,
\* set the date, add tags, or nothing (it does not match the pattern, or its
\* key is none of "Title", "Date", "Tags"); four lines hold a line break: after
\* the value "c" of a title ("| Title: c\nb |", no match, "." does not pass
\* it), before the value ("| Title:\n c |"), after the value "y" of a date and
\* before the closing bar ("| Date: y\n|"), and in the key ("| Ti\ntle: z |")
GatherVocab ==
    { [text |-> TitleLineA, sets |-> "title", value |-> <<"a">>],
      [text |-> KeyLine(TitleKey, <<"#", "b">>) \o <<" ", "x">>,
       sets |-> "title", value |-> <<"b">>],
      [text |-> KeyLine(DateKey, GoodDate), sets |-> "date", value |-> GoodDate],
      [text |-> <<"|">> \o DateKey \o <<":", "x", "|">>, sets |-> "date", value |-> <<"x">>],
      [text |-> KeyLine(TagsKey, TAG_TO_DOWNLOAD), sets |-> "tags",
       value |-> <<TAG_TO_DOWNLOAD>>],
      [text |-> KeyLine(TagsKey, <<"a", ",", " ", "b", ",", "a">>), sets |-> "tags",
       value |-> <<<<"a">>, <<" ", "b">>, <<"a">>>>],
      [text |-> KeyLine(<<"O", "t", "h", "e", "r">>, <<"q">>), sets |-> "nothing",
       value |-> <<>>],
      [text |-> KeyLine(<<"t", "i", "t", "l", "e">>, <<"z">>), sets |-> "nothing",
       value |-> <<>>],
      [text |-> <<" ">> \o TitleLineA, sets |-> "nothing", value |-> <<>>],
      [text |-> <<"|", " ">> \o TitleKey \o <<" ", "z", " ", "|">>, sets |-> "nothing",
       value |-> <<>>],
      [text |-> <<"|", " ">> \o TitleKey \o <<":", " ", "c", "\n", "b", " ", "|">>,
       sets |-> "nothing", value |-> <<>>],
      [text |-> <<"|", " ">> \o TitleKey \o <<":", "\n", " ", "c", " ", "|">>,
       sets |-> "title", value |-> <<"c">>],
      [text |-> <<"|", " ">> \o DateKey \o <<":", " ", "y", "\n", "|">>,
       sets |-> "date", value |-> <<"y">>],
      [text |-> <<"|", " ", "T", "i", "\n", "t", "l", "e", ":", " ", "z", " ", "|">>,
       sets |-> "nothing", value |-> <<>>],
      [text |-> RuleLine, sets |-> "nothing", value |-> <<>>] }

GatherInit ==
    /\ split = SplitIdle
    /\ bk = BkIdle
    /\ \E lines \in SeqsUpTo(GatherVocab, MaxGatherLines) :
          gather = [note |-> [k \in 1..Len(lines) |-> lines[k].text], pos |-> 0,
                    info |-> GatherStart, pc |-> "loop"]
    /\ notify = NotifyIdle
    /\ ssg = SsgIdle
    /\ RunIdle

\* one iteration of 'for line in note'
GatherLine ==
    /\ gather.pc = "loop"
    /\ gather.pos < Len(gather.note)
    /\ gather' = [gather EXCEPT !.pos = @ + 1,
                     !.info = GatherStep(gather.info, gather.note[gather.pos + 1])]
    /\ UNCHANGED <<split, bk, notify, ssg, runVars>>

\* 'return title, date, tags'
GatherReturn ==
    /\ gather.pc = "loop"
    /\ gather.pos = Len(gather.note)
    /\ gather' = [gather EXCEPT !.pc = "done"]
    /\ UNCHANGED <<split, bk, notify, ssg, runVars>>

GatherNext == GatherLine \/ GatherReturn

SpecGather == GatherInit /\ [][GatherNext]_vars

\* what the line was built to do
Meaning(line) == CHOOSE r \in GatherVocab : r.text = line

\* the value of the last of the first n lines built to set `field`, or ""
RECURSIVE LastValue(_, _, _)
LastValue(note, n, field) ==
    IF n = 0 THEN <<>>
    ELSE IF Meaning(note[n]).sets = field THEN Meaning(note[n]).value
         ELSE LastValue(note, n - 1, field)

\* the tags of the first n lines, in order
RECURSIVE AllTags(_, _)
AllTags(note, n) ==
    IF n = 0 THEN <<>>
    ELSE AllTags(note, n - 1)
             \o (IF Meaning(note[n]).sets = "tags" THEN Meaning(note[n]).value ELSE <<>>)

\* C21: after every line, and so at the return, the title is the value of the
\* last Title line read (without "#"), the empty string when there was none;
\* the date is the value of the last Date line as it stands; the tags are the
\* values of the Tags lines split at the commas, in order, duplicates kept and
\* nothing trimmed; a line that does not match the pattern or has another key
\* changes nothing; and the stepwise result is the one the function computes.
C21_GatherFromHeaderLines ==
    /\ gather.pc \in {"loop", "done"} =>
          /\ gather.info.title = LastValue(gather.note, gather.pos, "title")
          /\ gather.info.date = LastValue(gather.note, gather.pos, "date")
          /\ gather.info.tags = AllTags(gather.note, gather.pos)
    /\ gather.pc = "done" => gather.info = _gather_header_info(gather.note)

\* a returned call over a Tags line with a duplicate and an untrimmed tag, a
\* line with an unrecognized key and a second Tags line, and no Title line
C21_Witness ==
    /\ gather.pc = "done"
    /\ Len(gather.note) = 3
    /\ Meaning(gather.note[2]).sets = "nothing"
    /\ gather.info.tags = <<<<"a">>, <<" ", "b">>, <<"a">>, <<"p", "u", "b">>>>
    /\ gather.info.title = <<>>
    /\ gather.info.date = <<>>

(***************************************************************************)
(* The run from the validated dump on, over bounded dumps whose notes may  *)
(* lack a title (SpecTitle).                                               *)
(***************************************************************************)

MaxTitleNotes == 2

\* a note without a Title line, a note whose title is "#", and the notes "a"
\* and "b", all tagged "pub"
TitleNotes ==
    { <<RuleLine, KeyLine(DateKey, GoodDate), KeyLine(TagsKey, TAG_TO_DOWNLOAD),
        RuleLine, BodyLineX>>,
      NoteText(<<"#">>, TAG_TO_DOWNLOAD, <<BodyLineX>>),
      NoteText(<<"a">>, TAG_TO_DOWNLOAD, <<BodyLineX>>),
      NoteText(<<"b">>, TAG_TO_DOWNLOAD, <<BodyLineX>>) }

\* the validated input file holding the notes, its text ending with "\n"
DumpOf(notes) ==
    [exists |-> TRUE, content |-> Concat(notes) \o EmptyText, writer |-> "zero",
     rejected |-> FALSE]

TitleInit ==
    /\ split = SplitIdle
    /\ bk = BkIdle
    /\ gather = GatherIdle
    /\ notify = NotifyIdle
    /\ ssg = SsgIdle
    /\ env \in [MAX_RETRIES : {1}, DEBUG : BOOLEAN, TITLE_SUBSTITUTIONS : {TITLE_SUBSTITUTIONS}]
    /\ pc = "process"
    /\ file \in {DumpOf(notes) : notes \in SeqsUpTo(TitleNotes, MaxTitleNotes) \ {<<>>}}
    /\ fetch = FetchIdle
    /\ val = ValIdle
    /\ out = OutIdle
    /\ proc = ProcIdle
    /\ outdir = EmptyDir

TitleNext ==
    \/ MainReadsNotes
    \/ LoopProcessesNote
    \/ LoopEnds
    \/ ReconcilePasses
    \/ MainRemovesInput

SpecTitle == TitleInit /\ [][TitleNext]_vars

\* C22 as claimed: once the loop has gone past a note whose extracted title
\* is empty, the output directory has no file ".md" and the run does not end
\* as successful.
C22_EmptyTitleIsHardFailure ==
    (\E k \in 1..Len(proc.notes) :
        k < proc.next /\ _gather_header_info(proc.notes[k]).title = <<>>)
    => /\ <<".", "m", "d">> \notin DOMAIN outdir
       /\ pc # "done"

(***************************************************************************)
(* The run from the validated dump on, over bounded dumps whose notes      *)
(* carry the dates of a vocabulary (SpecDate).                             *)
(***************************************************************************)

MaxDateNotes == 2

\* the Date values with the title of the note that carries each, whether the
\* value has the form "<Weekday>, <DD> <Month> <YYYY> <HH:MM:SS>", and the
\* text "<YYYY>-<MM>-<DD>T<HH:MM:SS>+00:00" for it; "none" is a note without
\* a Date line
DateVocab ==
    { [title |-> <<"a">>, date |-> GoodDate, form |-> TRUE,
       iso |-> <<"2", "0", "2", "3", "-", "0", "9", "-", "0", "1", "T", "0", "2", ":", "3", "3", ":", "3", "5", "+", "0", "0", ":", "0", "0">>],
      [title |-> <<"b">>, date |-> <<"T", "h", "u", ",", " ", "2", "9", " ", "F", "e", "b", " ", "2", "0", "2", "4", " ", "2", "3", ":", "5", "9", ":", "5", "9">>, form |-> TRUE,
       iso |-> <<"2", "0", "2", "4", "-", "0", "2", "-", "2", "9", "T", "2", "3", ":", "5", "9", ":", "5", "9", "+", "0", "0", ":", "0", "0">>],
      [title |-> <<"c">>, date |-> <<"F", "r", "i", ",", " ", "0", "1", " ", "S", "e", "p", " ", "0", "9", "9", "9", " ", "0", "2", ":", "3", "3", ":", "3", "5">>, form |-> TRUE,
       iso |-> <<"0", "9", "9", "9", "-", "0", "9", "-", "0", "1", "T", "0", "2", ":", "3", "3", ":", "3", "5", "+", "0", "0", ":", "0", "0">>],
      [title |-> <<"d">>, date |-> <<"F", "r", "i", ",", " ", "1", " ", "S", "e", "p", " ", "2", "0", "2", "3", " ", "2", ":", "3", "3", ":", "3", "5">>, form |-> FALSE,
       iso |-> <<>>],
      [title |-> <<"e">>, date |-> <<"x">>, form |-> FALSE, iso |-> <<>>],
      [title |-> <<"f">>, date |-> <<"n", "o", "n", "e">>, form |-> FALSE, iso |-> <<>>] }

DateNote(r) ==
    IF r.date = <<"n", "o", "n", "e">>
    THEN <<RuleLine, KeyLine(TitleKey, r.title), KeyLine(TagsKey, TAG_TO_DOWNLOAD),
           RuleLine, BodyLineX>>
    ELSE DatedNoteText(r.title, r.date, TAG_TO_DOWNLOAD, <<BodyLineX>>)

DateInit ==
    /\ split = SplitIdle
    /\ bk = BkIdle
    /\ gather = GatherIdle
    /\ notify = NotifyIdle
    /\ ssg = SsgIdle
    /\ env = [MAX_RETRIES |-> 1, DEBUG |-> FALSE, TITLE_SUBSTITUTIONS |-> TITLE_SUBSTITUTIONS]
    /\ pc = "process"
    /\ file \in {DumpOf([k \in 1..Len(rs) |-> DateNote(rs[k])]) :
                    rs \in SeqsUpTo(DateVocab, MaxDateNotes) \ {<<>>}}
    /\ fetch = FetchIdle
    /\ val = ValIdle
    /\ out = OutIdle
    /\ proc = ProcIdle
    /\ outdir = EmptyDir

DateNext ==
    \/ MainReadsNotes
    \/ LoopProcessesNote
    \/ LoopNoteRaises
    \/ LoopEnds

SpecDate == DateInit /\ [][DateNext]_vars

\* the entry of the vocabulary the note was built from
DateOf(note) ==
    CHOOSE r \in DateVocab : r.title = _gather_header_info(note).title

\* C23 as claimed: every note the loop has gone past had a date of the form,
\* and its file holds "date: <YYYY>-<MM>-<DD>T<HH:MM:SS>+00:00" for the same
\* date and time; the run stops at a note whose date is not of the form, and
\* there is no file for that note.
C23_DateReformatted ==
    /\ \A k \in 1..Len(proc.notes) :
          k < proc.next =>
              LET r == DateOf(proc.notes[k])
                  name == r.title \o <<".", "m", "d">>
              IN  /\ r.form
                  /\ name \in DOMAIN outdir
                  /\ outdir[name][6] = <<"d", "a", "t", "e", ":", " ">> \o r.iso \o <<"\n">>
    /\ pc = "crashed" =>
          /\ ~DateOf(CurrentNote).form
          /\ DateOf(CurrentNote).title \o <<".", "m", "d">> \notin DOMAIN outdir

(***************************************************************************)
(* _send_gotify_notification called under every bounded configuration      *)
(* (SpecNotify).                                                           *)
(***************************************************************************)

MaxNotifyCalls == 2

\* the truth value Python gives os.environ.get(name): None and "" are false
Truthy(v) == v.set /\ v.value # <<>>

\* 'os.environ.get("GOTIFY_URL") and os.environ.get("GOTIFY_TOKEN")'
GotifyConfiguredMut(url, token) == Truthy(url)
GotifyConfigured(url, token) == Truthy(url) /\ Truthy(token)

\* the request of requests.post(url, params=params, data=data)
GotifyPost(url, token, notification_title, notification_text) ==
    [url |-> url.value \o <<"/", "m", "e", "s", "s", "a", "g", "e">>,
     params |-> [token |-> token.value],
     data |-> [title |-> notification_title, message |-> notification_text]]

\* the values of GOTIFY_URL and GOTIFY_TOKEN: not set, empty, and two values
UrlValues ==
    {Unset, [set |-> TRUE, value |-> <<>>],
     [set |-> TRUE, value |-> <<"h", "t", "t", "p", ":", "/", "/", "g">>],
     [set |-> TRUE, value |-> <<"h", "t", "t", "p", ":", "/", "/", "h", "/">>]}
TokenValues ==
    {Unset, [set |-> TRUE, value |-> <<>>],
     [set |-> TRUE, value |-> <<"t">>], [set |-> TRUE, value |-> <<"u">>]}

\* the titles and texts of the notifications main sends
NotifyTitles == {<<"s", "n", "2", "s", "s", "g", " ", "F", "A", "T", "A", "L", " ", "e", "r", "r", "o", "r">>, <<"s", "n", "2", "s", "s", "g", " ", "s", "u", "c", "c", "e", "s", "s", "f", "u", "l">>}
NotifyTexts == {<<"F", "A", "T", "A", "L">>, <<"D", "E", "B", "U", "G">>}

NotifyInit ==
    /\ split = SplitIdle
    /\ bk = BkIdle
    /\ gather = GatherIdle
    /\ notify \in {[NotifyIdle EXCEPT !.GOTIFY_URL = u, !.GOTIFY_TOKEN = t,
                                       !.pc = "ready"] :
                      u \in UrlValues, t \in TokenValues}
    /\ RunIdle

\* a call without the configuration: the message is printed, nothing is sent
NotifySkips ==
    /\ notify.pc = "ready"
    /\ notify.calls < MaxNotifyCalls
    /\ ~GotifyConfigured(notify.GOTIFY_URL, notify.GOTIFY_TOKEN)
    /\ \E title \in NotifyTitles, text \in NotifyTexts :
          notify' = [notify EXCEPT !.calls = @ + 1,
                        !.args = [title |-> title, text |-> text],
                        !.printed = @ + 1]
    /\ UNCHANGED <<split, bk, gather, ssg, runVars>>

\* a call with the configuration: one POST, whose response is printed, or
\* whose error leaves the function
NotifyPosts ==
    /\ notify.pc = "ready"
    /\ notify.calls < MaxNotifyCalls
    /\ GotifyConfigured(notify.GOTIFY_URL, notify.GOTIFY_TOKEN)
    /\ \E title \in NotifyTitles, text \in NotifyTexts, answered \in BOOLEAN :
          notify' = [notify EXCEPT !.calls = @ + 1,
                        !.args = [title |-> title, text |-> text],
                        !.posts = Append(@, GotifyPost(notify.GOTIFY_URL,
                                                       notify.GOTIFY_TOKEN, title, text)),
                        !.printed = IF answered THEN @ + 1 ELSE @,
                        !.pc = IF answered THEN "ready" ELSE "raised"]
    /\ UNCHANGED <<split, bk, gather, ssg, runVars>>

NotifyNext == NotifySkips \/ NotifyPosts

SpecNotify == NotifyInit /\ [][NotifyNext]_vars

\* C24: a call made while GOTIFY_URL or GOTIFY_TOKEN is not set or empty sends
\* no request and raises nothing (it prints one line); a call made with both
\* set sends exactly one request, a POST to "<GOTIFY_URL>/message" with the
\* token as the query parameter "token" and the arguments of the call as the
\* form fields "title" and "message".
C24_NotificationOnlyWhenConfigured ==
    [][notify'.calls = notify.calls + 1 =>
         IF \/ ~notify.GOTIFY_URL.set \/ notify.GOTIFY_URL.value = <<>>
            \/ ~notify.GOTIFY_TOKEN.set \/ notify.GOTIFY_TOKEN.value = <<>>
         THEN /\ notify'.posts = notify.posts
              /\ notify'.pc = "ready"
              /\ notify'.printed = notify.printed + 1
         ELSE /\ Len(notify'.posts) = Len(notify.posts) + 1
              /\ SubSeq(notify'.posts, 1, Len(notify.posts)) = notify.posts
              /\ LET post == notify'.posts[Len(notify'.posts)]
                 IN  /\ post.url = notify.GOTIFY_URL.value
                                      \o <<"/", "m", "e", "s", "s", "a", "g", "e">>
                     /\ post.params = [token |-> notify.GOTIFY_TOKEN.value]
                     /\ post.data = [title |-> notify'.args.title,
                                     message |-> notify'.args.text]]_vars

\* two calls with both values set sent two different requests
C24_Witness ==
    /\ notify.calls = 2
    /\ Len(notify.posts) = 2
    /\ notify.posts[1].data # notify.posts[2].data
    /\ notify.posts[1].url = notify.posts[2].url

(***************************************************************************)
(* _process_note over one note with every bounded body (SpecBody): the     *)
(* loop of main started at the note.                                       *)
(***************************************************************************)

MaxBodyLen == 3

\* body lines: "x", an empty line, a markdown heading "# a", a table row
\* "| t |", a line that ends with "|" and a line that starts with "+-"
BodyLineVocab ==
    {BodyLineX, <<>>, <<"#", " ", "a">>, <<"|", " ", "t", " ", "|">>,
     <<"y", " ", "|">>, <<"+", "-", "q">>}

BodyInit ==
    /\ split = SplitIdle
    /\ bk = BkIdle
    /\ gather = GatherIdle
    /\ notify = NotifyIdle
    /\ ssg = SsgIdle
    /\ env = [MAX_RETRIES |-> 0, DEBUG |-> FALSE, TITLE_SUBSTITUTIONS |-> TITLE_SUBSTITUTIONS]
    /\ pc = "loop"
    /\ file = NoFile
    /\ fetch = FetchIdle
    /\ val = ValIdle
    /\ out = OutIdle
    /\ \E body \in SeqsUpTo(BodyLineVocab, MaxBodyLen) :
          proc = [ProcIdle EXCEPT !.notes = <<NoteText(<<"a">>, TAG_TO_DOWNLOAD, body)>>,
                                  !.notes_input_counter = 1]
    /\ outdir = EmptyDir

BodyNext == LoopProcessesNote \/ LoopNoteRaises

SpecBody == BodyInit /\ [][BodyNext]_vars

\* C25 as claimed: the file of the processed note is the eleven lines of the
\* rendered header followed by the lines of the note after its five header
\* lines, in their order, every line ending with "\n".
C25_BodyPreserved ==
    (pc = "loop" /\ proc.next = 2) =>
        LET body == SubSeq(proc.notes[1], 6, Len(proc.notes[1]))
        IN  /\ Len(Written) = 11 + Len(body)
            /\ Written[1] = <<"-", "-", "-", "\n">>
            /\ Written[11] = <<"-", "-", "-", "\n">>
            /\ \A k \in 1..Len(body) : Written[11 + k] = body[k] \o <<"\n">>

(***************************************************************************)
(* The flags of _split_notes, under SpecSplit.                             *)
(***************************************************************************)

\* C26: a delimiter line read when the start and the end of a header were
\* both seen for the current note closes that note and starts a new one,
\* whose header start it is; any other delimiter line marks the start, or
\* else the end, and joins the current note; another line joins the current
\* note and leaves the flags.  So an input with d delimiter lines gives
\* max(1, ceil(d / 2)) notes (N notes for N delimiter pairs), and an input
\* without a delimiter line gives one note that holds the whole input.
C26_DelimiterPairsCutNotes ==
    /\ [][(split.pc = "loop" /\ split'.pos = split.pos + 1) =>
            LET line == split.input_lines[split.pos + 1]
                delimiter == EndsWith(line, <<"-", "+">>)
                old == split.st
                new == split'.st
            IN  IF delimiter /\ old.header_start_found /\ old.header_end_found
                THEN /\ new.output_notes = Append(old.output_notes, old.note)
                     /\ new.note = <<line>>
                     /\ new.header_start_found /\ ~new.header_end_found
                ELSE /\ new.output_notes = old.output_notes
                     /\ new.note = Append(old.note, line)
                     /\ IF ~delimiter
                        THEN /\ new.header_start_found = old.header_start_found
                             /\ new.header_end_found = old.header_end_found
                        ELSE /\ new.header_start_found
                             /\ new.header_end_found = old.header_start_found]_vars
    /\ [](split.pc = "done" =>
            LET d == NumDelimiters(split.input_lines)
            IN  /\ Len(split.notes) = Max(1, (d + 1) \div 2)
                /\ d = 0 => split.notes = <<split.input_lines>>)

\* five delimiter lines gave three notes
C26_Witness ==
    /\ split.pc = "done"
    /\ NumDelimiters(split.input_lines) = 5
    /\ Len(split.notes) = 3

(***************************************************************************)
(* The loop of main over bounded lists that mix ordinary notes and         *)
(* container notes (SpecMix).                                              *)
(***************************************************************************)

MaxMixNotes == 3

\* the ordinary notes "a" and "b"; the container "c" with two entries; the
\* containers "d", without a line after its header, and "g", with a first
\* line only, which have no entry; and the container "h", whose second tag
\* "c:c:list" leaves the continuous tag in the header of its one part
MixNotes ==
    { NoteText(<<"a">>, TAG_TO_DOWNLOAD, <<BodyLineX>>),
      NoteText(<<"b">>, TAG_TO_DOWNLOAD, <<BodyLineX>>),
      NoteText(<<"c">>, ContainerTags, <<<<"c">>, BodyLineX, <<>>, <<"y">>>>),
      NoteText(<<"d">>, ContainerTags, <<>>),
      NoteText(<<"g">>, ContainerTags, <<BodyLineX>>),
      NoteText(<<"h">>, ContainerTags \o <<",", "c", ":">> \o CONTINUOUS_NOTE_TAG,
               <<<<"h">>, BodyLineX>>) }

MixInit ==
    /\ split = SplitIdle
    /\ bk = BkIdle
    /\ gather = GatherIdle
    /\ notify = NotifyIdle
    /\ ssg = SsgIdle
    /\ env = [MAX_RETRIES |-> 0, DEBUG |-> FALSE, TITLE_SUBSTITUTIONS |-> TITLE_SUBSTITUTIONS]
    /\ pc = "loop"
    /\ file = NoFile
    /\ fetch = FetchIdle
    /\ val = ValIdle
    /\ out = OutIdle
    /\ \E notes \in SeqsUpTo(MixNotes, MaxMixNotes) :
          proc = [ProcIdle EXCEPT !.notes = notes,
                                  !.notes_input_counter = Len(notes)]
    /\ outdir = EmptyDir

MixNext == LoopExpandsContainer \/ LoopProcessesNote \/ LoopEnds

SpecMix == MixInit /\ [][MixNext]_vars

\* the notes among the first n of the working list that carry the continuous
\* tag
ContainersAmong(n) ==
    {k \in 1..n : \E i \in 1..Len(_gather_header_info(proc.notes[k]).tags) :
                     _gather_header_info(proc.notes[k]).tags[i] = <<"c", ":", "l", "i", "s", "t">>}

\* C27: while the loop runs, the output count is the number of notes without
\* the continuous tag the loop has gone past, and the input count is the
\* length of the working list less the number of containers gone past; so at
\* the reconciliation the two counts are equal, and equal to the number of
\* notes of the working list that are no containers.
C27_CountsAgreeAtReconciliation ==
    LET past == IF pc = "reconcile" THEN Len(proc.notes) ELSE proc.next - 1
        containers == Cardinality(ContainersAmong(past))
    IN  /\ proc.notes_output_counter = past - containers
        /\ proc.notes_input_counter = Len(proc.notes) - containers
        /\ pc = "reconcile" =>
              /\ proc.next = Len(proc.notes) + 1
              /\ proc.notes_input_counter = proc.notes_output_counter

\* a list with an ordinary note, a container with two entries and a container
\* without entries reached the reconciliation with three notes counted
C27_Witness ==
    /\ pc = "reconcile"
    /\ Len(proc.notes) = 5
    /\ Cardinality(ContainersAmong(3)) = 2
    /\ Len(_split_continuous_note(proc.notes[3]).notes) = 0
    /\ proc.notes_input_counter = 3
    /\ proc.notes_output_counter = 3

(***************************************************************************)
(* The order of main: fetch, validation, processing (under Spec).          *)
(***************************************************************************)

\* the run is in the first call of _run_sncli_with_backoff
InInitialFetch == pc = "fetch" /\ fetch.caller = "main"

\* the run is in _validate_dumped_notes_have_tag_to_download_with_backoff, its
\* re-fetches included
InValidation ==
    \/ pc \in {"validate", "val_failed", "val_refetch"}
    \/ pc = "fetch" /\ fetch.caller = "validate"

\* nothing of the processing has happened
NothingProcessed ==
    /\ proc.notes = <<>>
    /\ proc.notes_output_counter = 0
    /\ proc.touched = {}
    /\ proc.written = 0

\* C28: a run starts with the initial fetch; the initial fetch ends either with
\* success, and then the validation starts, or with failure, and then the run
\* notifies once and exits with status 1; the validation ends either with
\* success, and only then the notes are read, or with failure, and then the
\* run notifies once and exits with status 1.  Until the validation has
\* returned success no note is processed and no step changes the output
\* directory, so a run that ends at either failure has left it unchanged.
C28_ProcessingOnlyAfterFetchAndValidation ==
    /\ [][/\ pc = "start" => pc' = "fetch" /\ fetch'.caller = "main"
          /\ InInitialFetch =>
                \/ InInitialFetch'
                \/ pc' = "validate" /\ fetch'.result = "true" /\ val'.result = "none"
                \/ pc' = "exit1" /\ fetch'.result = "false"
          /\ InValidation =>
                \/ InValidation'
                \/ pc' = "process" /\ val'.result = "true"
                \/ pc' = "exit1" /\ val'.result = "false"
          /\ pc' = "exit1" /\ pc # "exit1" =>
                /\ InInitialFetch \/ InValidation
                /\ out'.notifications = out.notifications + 1
          /\ pc' = "process" /\ pc # "process" => InValidation
          /\ (pc \in {"start", "exit1"} \/ InInitialFetch \/ InValidation) =>
                outdir' = outdir /\ NothingProcessed'
          /\ pc = "process" => outdir' = outdir]_vars
    /\ [](pc \in {"start", "exit1", "process"} \/ InInitialFetch \/ InValidation
             => NothingProcessed)
    /\ [](pc \in {"loop", "reconcile", "cleanup", "done", "crashed", "write_failed",
                  "reconcile_failed"}
             => val.result = "true" /\ val.verdict = "ok")
    /\ [](pc = "exit1" =>
             /\ ExitStatus = 1
             /\ out.notifications = 1
             /\ \/ fetch.caller = "main" /\ fetch.result = "false" /\ val = ValIdle
                \/ val.result = "false")

\* the validation gave up after a re-fetch, over a directory that held files:
\* one notification, status 1, nothing processed
C28_Witness ==
    /\ pc = "exit1"
    /\ val.result = "false"
    /\ val.refetches = 1
    /\ out.notifications = 1
    /\ NothingProcessed
    /\ outdir = DirStale

(***************************************************************************)
(* _validate_dumped_notes_have_tag_to_download_with_backoff from its call  *)
(* to its return, every step of the function being taken once it can be   *)
(* (SpecValLoop).                                                          *)
(***************************************************************************)

\* main has called the validation after a first fetch that succeeded at once
ValLoopInit ==
    /\ split = SplitIdle
    /\ bk = BkIdle
    /\ gather = GatherIdle
    /\ notify = NotifyIdle
    /\ ssg = SsgIdle
    /\ env \in [MAX_RETRIES : 1..MaxRetries, DEBUG : {FALSE},
               TITLE_SUBSTITUTIONS : {TITLE_SUBSTITUTIONS}]
    /\ pc = "validate"
    /\ \E t \in DumpTexts :
          file = [exists |-> TRUE, content |-> t, writer |-> "zero", rejected |-> FALSE]
    /\ fetch = [FetchIdle EXCEPT !.caller = "main", !.invocations = 1,
                                 !.last = "zero", !.result = "true"]
    /\ val = ValIdle
    /\ out = [OutIdle EXCEPT !.invocations = 1]
    /\ proc = ProcIdle
    /\ outdir = EmptyDir

\* the steps of the function and of the re-fetches it calls
ValLoopStep ==
    \/ FetchAttemptSucceeds
    \/ FetchAttemptFailsRetry
    \/ FetchAttemptFailsLast
    \/ ValidatePassOk
    \/ ValidatePassFails
    \/ ValidateFileMissing
    \/ ValidateReadError
    \/ ValidateSleep
    \/ ValidateRefetch
    \/ ValidateGiveUp

ValLoopNext == ValLoopStep \/ InputFileVanishes

\* the interpreter runs the function on: every invocation of the tool and
\* every sleep returns
SpecValLoop == ValLoopInit /\ [][ValLoopNext]_vars /\ WF_vars(ValLoopStep)

\* C29: the validation returns; it makes at most MAX_RETRIES passes and starts
\* at most MAX_RETRIES - 1 re-fetches; every re-fetch starts right after a
\* sleep of the backoff delay of the pass that failed; a failed pass is
\* followed by the return of false exactly when it is the MAX_RETRIES-th, so
\* false is returned after MAX_RETRIES passes none of which succeeded.
C29_ValidationTerminates ==
    /\ <>(val.result \in {"true", "false"})
    /\ [](/\ val.passes <= env.MAX_RETRIES
          /\ val.refetches <= env.MAX_RETRIES - 1
          /\ val.refetches <= Len(val.sleeps)
          /\ Len(val.sleeps) <= env.MAX_RETRIES - 1
          /\ \A k \in 1..Len(val.sleeps) : val.sleeps[k] = k - 1)
    /\ [](val.result = "false" =>
             /\ val.passes = env.MAX_RETRIES
             /\ val.verdict # "ok"
             /\ pc = "exit1")
    /\ [][/\ val'.refetches # val.refetches =>
                /\ val'.refetches = val.refetches + 1
                /\ Len(val.sleeps) = val.passes
                /\ val.sleeps[Len(val.sleeps)] = val.attempt
          /\ pc = "val_failed" =>
                IF val.passes = env.MAX_RETRIES
                THEN val'.result = "false"
                ELSE val'.result = "none" /\ Len(val'.sleeps) = Len(val.sleeps) + 1
          /\ val'.result = "false" /\ val.result # "false" => pc = "val_failed"]_vars

\* false was returned after the last of MAX_RETRIES passes, each re-fetch
\* having succeeded with a dump without a tags line
C29_Witness ==
    /\ val.result = "false"
    /\ env.MAX_RETRIES = MaxRetries
    /\ val.passes = MaxRetries
    /\ val.refetches = MaxRetries - 1
    /\ Len(val.sleeps) = MaxRetries - 1
    /\ fetch.caller = "validate"
    /\ fetch.result = "true"
    /\ fetch.failures = 0
    /\ file.content = DumpNoTags
    /\ val.rejections = MaxRetries

(***************************************************************************)
(* The loop of main over one container note whose parts may be containers  *)
(* again (SpecNest).                                                       *)
(***************************************************************************)

MaxNestLines == 3

\* "pub,c:list", "pub,c:list,c:c:list" and "pub,c:list,c:c:list,c:c:c:list":
\* replacing "c:list" by "list" in the last two leaves the tag "c:list"
NestTags ==
    { ContainerTags,
      ContainerTags \o <<",", "c", ":">> \o CONTINUOUS_NOTE_TAG,
      ContainerTags \o <<",", "c", ":">> \o CONTINUOUS_NOTE_TAG
          \o <<",", "c", ":", "c", ":">> \o CONTINUOUS_NOTE_TAG }

\* the entry lines "x", "" and "| Tags: c:list |"
NestLines == {BodyLineX, <<>>, KeyLine(TagsKey, CONTINUOUS_NOTE_TAG)}

\* the container "n": its header, the line "t" that the expansion skips, and
\* the entry lines
NestNotes ==
    { NoteText(<<"n">>, tags, <<<<"t">>>> \o body) :
         tags \in NestTags, body \in SeqsUpTo(NestLines, MaxNestLines) }

NestInit ==
    /\ split = SplitIdle
    /\ bk = BkIdle
    /\ gather = GatherIdle
    /\ notify = NotifyIdle
    /\ ssg = SsgIdle
    /\ env = [MAX_RETRIES |-> 0, DEBUG |-> FALSE, TITLE_SUBSTITUTIONS |-> TITLE_SUBSTITUTIONS]
    /\ pc = "loop"
    /\ file = NoFile
    /\ fetch = FetchIdle
    /\ val = ValIdle
    /\ out = OutIdle
    /\ \E note \in NestNotes :
          proc = [ProcIdle EXCEPT !.notes = <<note>>, !.notes_input_counter = 1]
    /\ outdir = EmptyDir

NestNext == LoopExpandsContainer \/ LoopProcessesNote \/ LoopEnds

SpecNest == NestInit /\ [][NestNext]_vars

\* the tag list extracted from a note holds "c:list"
HasContinuousTag(note) ==
    \E i \in 1..Len(_gather_header_info(note).tags) :
       _gather_header_info(note).tags[i] = <<"c", ":", "l", "i", "s", "t">>

\* the lines of the note that are not empty, the five lines of its header left
\* out
NonBlankBodyLines(note) ==
    Cardinality({k \in 6..Len(note) : note[k] # <<>>})

\* C31 as claimed: no note that an expansion appended to the working list has
\* the continuous tag in its tag list, no such note is expanded, and the list
\* has grown by no more than the number of non-blank body lines of the
\* original container.
C31_ExpansionsNeverExpanded ==
    /\ \A k \in 2..Len(proc.notes) : ~HasContinuousTag(proc.notes[k])
    /\ Len(proc.notes) - 1 <= NonBlankBodyLines(proc.notes[1])

(***************************************************************************)
(* Validation passes that end with an unexpected error (under SpecValLoop) *)
(***************************************************************************)

\* C32: a pass that raises an error other than FileNotFoundError ends inside
\* the function; when passes are left, the next step sleeps the backoff delay
\* of this pass and goes on to the next pass, the input file as it was, without
\* a re-fetch and without an invocation of the dump tool; when it was the
\* MAX_RETRIES-th pass, the next step returns false.  No step of the
\* validation ends the run with an uncaught error.
C32_UnexpectedErrorRetriesWithoutRefetch ==
    /\ [][/\ (pc = "validate" /\ val'.verdict = "error" /\ val'.passes = val.passes + 1) =>
                /\ pc' = "val_failed"
                /\ val'.result = "none"
                /\ file' = file
          /\ (pc = "val_failed" /\ val.verdict = "error") =>
                IF val.passes < env.MAX_RETRIES
                THEN /\ pc' = "validate"
                     /\ val'.sleeps = Append(val.sleeps, val.attempt)
                     /\ val'.attempt = val.attempt + 1
                     /\ val'.refetches = val.refetches
                     /\ val'.result = "none"
                     /\ file' = file
                     /\ fetch' = fetch
                     /\ out' = out
                ELSE /\ val'.result = "false"
                     /\ val'.sleeps = val.sleeps
                     /\ val'.refetches = val.refetches
                     /\ file' = file
                     /\ fetch' = fetch]_vars
    /\ [](pc # "crashed")

\* every one of MAX_RETRIES passes raised: false was returned after a sleep
\* between the passes, the dump tool invoked by the first fetch of main only
C32_Witness ==
    /\ val.result = "false"
    /\ val.verdict = "error"
    /\ env.MAX_RETRIES = MaxRetries
    /\ val.passes = MaxRetries
    /\ val.rejections = 0
    /\ val.refetches = 0
    /\ Len(val.sleeps) = MaxRetries - 1
    /\ out.invocations = 1
    /\ file.exists
    /\ file.writer = "zero"

====
